---- MODULE Spec2Model ----
(***************************************************************************)
(* State-machine model of the office simulator's GameBoard component:      *)
(* the grid, the roster, the client list, the economy, the pause flag and  *)
(* the modal, with one action per handler.  A handler, the render that     *)
(* follows it and the effects of that render form one step: React runs     *)
(* them to completion before the next event is handled.                    *)
(*                                                                         *)
(* The grid of the game is GRID_WIDTH x GRID_HEIGHT cells with a 26 x 26   *)
(* office floor; the model keeps the construction of the source and        *)
(* scales the dimensions down (GRID_WIDTH, GRID_HEIGHT, squareSize).       *)
(***************************************************************************)
EXTENDS Integers, Sequences, FiniteSets, TLC

VARIABLES
    grid,               \* grid[y][x]: the cells (useState grid)
    employees,          \* the roster, in hiring order
    clients,            \* the client list
    economy,            \* cash, monthlyRevenue, monthlyExpenses
    elapsed,            \* Date.now() - economy.lastMonthTick, in seconds
    isPaused,
    isTutorialVisible,
    modalState,
    selectedTool,
    selectedBuildingId,
    tileClickCash,      \* economy.cash as captured by the memoized handleTileClick
    levelId,            \* prop of GameBoard
    onReturnToMenu,     \* prop of GameBoard: TRUE when the page passes it
    isPlaying,          \* page state: FALSE once the board returned to the menu
    nextId,             \* source of fresh employee ids
    steps,              \* number of commands and month ticks handled so far
    ev,                 \* the last handler that ran and the signals it emitted
    lastPlacement       \* history: the placement that last changed the grid

vars == <<grid, employees, clients, economy, elapsed, isPaused,
          isTutorialVisible, modalState, selectedTool, selectedBuildingId,
          tileClickCash, levelId, onReturnToMenu, isPlaying, nextId, steps, ev,
          lastPlacement>>

----------------------------------------------------------------------------
(* Bounds of the model *)

GRID_WIDTH == 10
GRID_HEIGHT == 10
MaxSteps == 2           \* commands and month ticks explored along one behaviour
MaxQuits == 1           \* employees that quit in one tick
MaxChurn == 1           \* clients that leave in one tick
ClockStep == 15         \* seconds that pass between two polls of the timer

----------------------------------------------------------------------------
(* Values *)

null == <<>>            \* null / no desk
undefined == "undefined"
missing == [missing |-> TRUE]   \* a registry lookup that finds nothing
noBuildingId == "null"          \* selectedBuildingId null
NoCoord == -1           \* originX / originY undefined
NoEmployee == 0         \* assignedEmployeeId undefined

\* lastPlacement when the last change of the grid was not a placement
noPlacement == [placed |-> FALSE, before |-> <<>>, cells |-> {}]

Min(a, b) == IF a < b THEN a ELSE b
Max(a, b) == IF a > b THEN a ELSE b

\* the subsequence of s at the positions not in drop
Without(s, drop, i) ==
    LET numbered == [k \in 1 .. Len(s) |-> <<k, s[k]>>]
        isKept(p) == p[1] >= i /\ p[1] \notin drop
        kept == SelectSeq(numbered, isKept)
    IN [k \in 1 .. Len(kept) |-> kept[k][2]]

Xs == 0 .. GRID_WIDTH - 1
Ys == 0 .. GRID_HEIGHT - 1

----------------------------------------------------------------------------
(* Static data *)

hiringCost == 5000
marketingCost == 1000
deskRent == 100
monthDuration == 30
startingCash == 20000
founderSalary == 10000
baseSalary == 5000
startHappiness == 75
maxClientCount == 100
passiveClientThreshold == 5
defaultMaxEmployees == 50

FURNITURE ==
    [id \in {"basic-desk", "premium-desk", "executive-desk", "standing-desk",
             "small-meeting", "large-meeting", "conference-room",
             "coffee-station", "break-table", "water-cooler",
             "office-plant", "bookshelf", "filing-cabinet", "reception-desk"} |->
       CASE id = "basic-desk"      -> [category |-> "desks", furnitureType |-> "desk", width |-> 1, height |-> 1, cost |-> 500]
         [] id = "premium-desk"    -> [category |-> "desks", furnitureType |-> "desk", width |-> 1, height |-> 1, cost |-> 1000]
         [] id = "executive-desk"  -> [category |-> "desks", furnitureType |-> "desk", width |-> 2, height |-> 1, cost |-> 2000]
         [] id = "standing-desk"   -> [category |-> "desks", furnitureType |-> "desk", width |-> 1, height |-> 1, cost |-> 1500]
         [] id = "small-meeting"   -> [category |-> "meeting_rooms", furnitureType |-> "meeting_room", width |-> 2, height |-> 2, cost |-> 2000]
         [] id = "large-meeting"   -> [category |-> "meeting_rooms", furnitureType |-> "meeting_room", width |-> 3, height |-> 3, cost |-> 5000]
         [] id = "conference-room" -> [category |-> "meeting_rooms", furnitureType |-> "meeting_room", width |-> 4, height |-> 3, cost |-> 8000]
         [] id = "coffee-station"  -> [category |-> "amenities", furnitureType |-> "break_area", width |-> 1, height |-> 1, cost |-> 800]
         [] id = "break-table"     -> [category |-> "amenities", furnitureType |-> "break_area", width |-> 2, height |-> 2, cost |-> 1200]
         [] id = "water-cooler"    -> [category |-> "amenities", furnitureType |-> "break_area", width |-> 1, height |-> 1, cost |-> 400]
         [] id = "office-plant"    -> [category |-> "decor", furnitureType |-> "desk", width |-> 1, height |-> 1, cost |-> 200]
         [] id = "bookshelf"       -> [category |-> "decor", furnitureType |-> "desk", width |-> 1, height |-> 2, cost |-> 400]
         [] id = "filing-cabinet"  -> [category |-> "decor", furnitureType |-> "desk", width |-> 1, height |-> 1, cost |-> 300]
         [] id = "reception-desk"  -> [category |-> "decor", furnitureType |-> "reception", width |-> 2, height |-> 1, cost |-> 1500]]

getFurniture(id) == IF id \in DOMAIN FURNITURE THEN FURNITURE[id] ELSE missing

\* no furniture entry has footprintByOrientation: the footprint is the same
\* for every orientation
getFurnitureFootprint(furniture) ==
    [width |-> furniture.width, height |-> furniture.height]

LEVELS ==
    [id \in {"level_1", "level_2", "level_3"} |->
       CASE id = "level_1" -> [employees |-> 10, clients |-> 20, happiness |-> 0]
         [] id = "level_2" -> [employees |-> 10, clients |-> 20, happiness |-> 0]
         [] id = "level_3" -> [employees |-> 20, clients |-> 40, happiness |-> 65]]

getLevel(id) == IF id \in DOMAIN LEVELS THEN LEVELS[id] ELSE missing

\* The building registry (city-builder items): one regular building and one
\* decoration stand for its entries.
BUILDINGS ==
    [id \in {"house", "tree"} |->
       CASE id = "house" -> [category |-> "residential", isDecoration |-> FALSE, width |-> 2, height |-> 2]
         [] id = "tree"  -> [category |-> "props", isDecoration |-> FALSE, width |-> 1, height |-> 1]]

getBuilding(id) == IF id \in DOMAIN BUILDINGS THEN BUILDINGS[id] ELSE missing

getBuildingFootprint(building) ==
    [width |-> building.width, height |-> building.height]

----------------------------------------------------------------------------
(* Grid *)

Cell(type) ==
    [type |-> type, isOrigin |-> TRUE, originX |-> NoCoord, originY |-> NoCoord,
     buildingId |-> undefined, furnitureType |-> undefined,
     assignedEmployeeId |-> NoEmployee, underlyingTileType |-> undefined]

squareSize == GRID_WIDTH - 2
start == (GRID_WIDTH - squareSize) \div 2

createEmptyGrid ==
    LET end == start + squareSize
        isCenterSquare(x, y) == x >= start /\ x < end /\ y >= start /\ y < end
        isInnerBorder(x, y) ==
            isCenterSquare(x, y) /\
            (x = start \/ x = end - 1 \/ y = start \/ y = end - 1)
    IN [y \in Ys |-> [x \in Xs |->
          Cell(IF isInnerBorder(x, y) THEN "Asphalt"
               ELSE IF isCenterSquare(x, y) THEN "Tile" ELSE "Asphalt")]]

\* the helper of createLevel1StarterOffice: the origin cell keeps its
\* originX/originY undefined, the other cells point at the origin
placeFurniture(g, furnitureId, gridX, gridY, width, height) ==
    LET furnitureType == getFurniture(furnitureId).furnitureType
    IN [y \in Ys |-> [x \in Xs |->
          IF x = gridX /\ y = gridY
          THEN [g[y][x] EXCEPT !.type = "Building", !.buildingId = furnitureId,
                               !.isOrigin = TRUE, !.furnitureType = furnitureType]
          ELSE IF x >= gridX /\ x < gridX + width /\ y >= gridY /\ y < gridY + height
          THEN [g[y][x] EXCEPT !.type = "Building", !.buildingId = furnitureId,
                               !.isOrigin = FALSE, !.originX = gridX,
                               !.originY = gridY, !.furnitureType = furnitureType]
          ELSE g[y][x]]]

RECURSIVE placeAll(_, _)
placeAll(g, items) ==
    IF items = <<>> THEN g
    ELSE placeAll(placeFurniture(g, items[1][1], items[1][2], items[1][3],
                                 items[1][4], items[1][5]), Tail(items))

centerX == start + squareSize \div 2
centerY == start + squareSize \div 2

\* The furniture of the level 1 office in the order of the source; the
\* offsets from the centre are those of the source scaled to the bounded
\* office floor.
createLevel1StarterOffice ==
    placeAll(createEmptyGrid,
      << <<"basic-desk", centerX - 3, centerY - 3, 1, 1>>,
         <<"basic-desk", centerX - 2, centerY - 3, 1, 1>>,
         <<"basic-desk", centerX - 1, centerY - 3, 1, 1>>,
         <<"basic-desk", centerX - 3, centerY - 2, 1, 1>>,
         <<"basic-desk", centerX - 2, centerY - 2, 1, 1>>,
         <<"basic-desk", centerX - 1, centerY - 2, 1, 1>>,
         <<"small-meeting", centerX + 1, centerY - 3, 2, 2>>,
         <<"coffee-station", centerX - 3, centerY, 1, 1>>,
         <<"water-cooler", centerX - 2, centerY, 1, 1>>,
         <<"break-table", centerX - 3, centerY + 1, 2, 2>>,
         <<"executive-desk", centerX + 1, centerY, 2, 1>>,
         <<"premium-desk", centerX + 1, centerY + 1, 1, 1>>,
         <<"premium-desk", centerX + 2, centerY + 1, 1, 1>>,
         <<"standing-desk", centerX, centerY - 1, 1, 1>> >>)

\* a single executive desk (2 x 1) for the founder in the centre
createLevel2StarterOffice ==
    placeFurniture(createEmptyGrid, "executive-desk", centerX, centerY, 2, 1)

createLevel3StarterOffice ==
    placeFurniture(createEmptyGrid, "executive-desk", centerX, centerY, 2, 1)

initialGrid(level) ==
    CASE level = "level_1" -> createLevel1StarterOffice
      [] level = "level_2" -> createLevel2StarterOffice
      [] level = "level_3" -> createLevel3StarterOffice
      [] OTHER -> createEmptyGrid

----------------------------------------------------------------------------
(* employeeSystem *)

generateEmployee(id, salary) ==
    [id |-> id, assignedDeskId |-> null, salary |-> salary,
     happiness |-> startHappiness]

RECURSIVE calculateMonthlySalaries(_)
calculateMonthlySalaries(emps) ==
    IF emps = <<>> THEN 0
    ELSE Head(emps).salary + calculateMonthlySalaries(Tail(emps))

isFreeDesk(cell) ==
    cell.furnitureType = "desk" /\ cell.assignedEmployeeId = NoEmployee /\ cell.isOrigin

countAvailableDesks(g) ==
    Cardinality({p \in Xs \X Ys : isFreeDesk(g[p[2]][p[1]])})

\* a variant of the scan that goes through the columns first
findAvailableDeskColumnMajor(g) ==
    LET free == {p \in Xs \X Ys : isFreeDesk(g[p[2]][p[1]])}
    IN IF free = {} THEN null
       ELSE CHOOSE p \in free :
              \A q \in free : p[1] < q[1] \/ (p[1] = q[1] /\ p[2] <= q[2])

\* row-major scan: rows top to bottom, columns left to right
findAvailableDesk(g) ==
    LET free == {p \in Xs \X Ys : isFreeDesk(g[p[2]][p[1]])}
    IN IF free = {} THEN null
       ELSE CHOOSE p \in free :
              \A q \in free : p[2] < q[2] \/ (p[2] = q[2] /\ p[1] <= q[1])

\* `${x},${y}` and its parse by split(",").map(Number)
deskIdOf(x, y) == <<x, y>>
deskX(deskId) == deskId[1]
deskY(deskId) == deskId[2]

----------------------------------------------------------------------------
(* clientSystem *)

generateClient(revenue) == [monthlyRevenue |-> revenue]

\* clients.reduce((sum, client) => sum + client.monthlyRevenue, 0), summed
\* by halves
RECURSIVE revenueBetween(_, _, _)
revenueBetween(cs, from, to) ==
    IF from > to THEN 0
    ELSE IF from = to THEN cs[from].monthlyRevenue
    ELSE LET mid == (from + to) \div 2
         IN revenueBetween(cs, from, mid) + revenueBetween(cs, mid + 1, to)

calculateMonthlyRevenue(cs) == revenueBetween(cs, 1, Len(cs))

\* churn rate in percent: 20 when understaffed (employees < clients / 3)
churnRate(cs, employeeCount) ==
    IF 3 * employeeCount < Len(cs) THEN 20 ELSE 5

\* Math.random() > churnRate keeps a client: every client may stay or leave
applyClientChurn(cs, employeeCount, leave) ==
    IF churnRate(cs, employeeCount) > 0 THEN Without(cs, leave, 1) ELSE cs

\* the coin is thrown only with 5 or more employees
shouldAcquirePassiveClient(employeeCount, coin) ==
    IF employeeCount < passiveClientThreshold THEN FALSE ELSE coin

----------------------------------------------------------------------------
(* happinessSystem *)

DESK_QUALITY_BONUS ==
    [id \in {"desk-basic", "desk-premium", "desk-executive", "desk-standing"} |->
       CASE id = "desk-basic" -> 0
         [] id = "desk-premium" -> 10
         [] id = "desk-executive" -> 20
         [] id = "desk-standing" -> 15]

AMENITY_BUILDINGS ==
    [id \in {"coffee-machine", "break-area", "meeting-room", "water-cooler", "plant"} |->
       CASE id = "coffee-machine" -> [bonus |-> 10, range |-> 10]
         [] id = "break-area" -> [bonus |-> 15, range |-> 15]
         [] id = "meeting-room" -> [bonus |-> 8, range |-> 12]
         [] id = "water-cooler" -> [bonus |-> 5, range |-> 8]
         [] id = "plant" -> [bonus |-> 3, range |-> 5]]

\* sqrt(dx^2 + dy^2) <= range, compared on the squares
withinRange(x1, y1, x2, y2, range) ==
    (x2 - x1) * (x2 - x1) + (y2 - y1) * (y2 - y1) <= range * range

findAmenities(g) ==
    {p \in Xs \X Ys :
        /\ g[p[2]][p[1]].isOrigin
        /\ g[p[2]][p[1]].buildingId \in DOMAIN AMENITY_BUILDINGS}

RECURSIVE SumBonus(_)
SumBonus(types) ==
    IF types = {} THEN 0
    ELSE LET t == CHOOSE t \in types : TRUE
         IN AMENITY_BUILDINGS[t].bonus + SumBonus(types \ {t})

\* a variant that adds the bonus of every amenity in range, also when
\* several are of the same type
calculateEmployeeHappinessStacking(employee, g) ==
    IF employee.assignedDeskId = null THEN 20
    ELSE LET dx == deskX(employee.assignedDeskId)
             dy == deskY(employee.assignedDeskId)
         IN IF ~(dy \in Ys /\ dx \in Xs) THEN 20
            ELSE LET deskCell == g[dy][dx]
                     deskBonus ==
                       IF deskCell.buildingId \in DOMAIN DESK_QUALITY_BONUS
                       THEN DESK_QUALITY_BONUS[deskCell.buildingId] ELSE 0
                     inRange ==
                       {q \in findAmenities(g) :
                          withinRange(dx, dy, q[1], q[2],
                            AMENITY_BUILDINGS[g[q[2]][q[1]].buildingId].range)}
                     RECURSIVE sum(_)
                     sum(S) == IF S = {} THEN 0
                               ELSE LET q == CHOOSE q \in S : TRUE
                                    IN AMENITY_BUILDINGS[g[q[2]][q[1]].buildingId].bonus
                                         + sum(S \ {q})
                 IN Max(0, Min(100, 50 + deskBonus + sum(inRange)))

calculateEmployeeHappiness(employee, g) ==
    IF employee.assignedDeskId = null THEN 20
    ELSE LET dx == deskX(employee.assignedDeskId)
             dy == deskY(employee.assignedDeskId)
         IN IF ~(dy \in Ys /\ dx \in Xs) THEN 20
            ELSE LET deskCell == g[dy][dx]
                     deskBonus ==
                       IF deskCell.buildingId \in DOMAIN DESK_QUALITY_BONUS
                       THEN DESK_QUALITY_BONUS[deskCell.buildingId] ELSE 0
                     applied ==
                       {g[p[2]][p[1]].buildingId : p \in
                          {q \in findAmenities(g) :
                             withinRange(dx, dy, q[1], q[2],
                               AMENITY_BUILDINGS[g[q[2]][q[1]].buildingId].range)}}
                 IN Max(0, Min(100, 50 + deskBonus + SumBonus(applied)))

\* Math.floor(total / length)
calculateAverageHappinessFloor(emps) ==
    IF Len(emps) = 0 THEN 0
    ELSE LET RECURSIVE total(_)
             total(s) == IF s = <<>> THEN 0 ELSE Head(s).happiness + total(Tail(s))
         IN total(emps) \div Len(emps)

\* Math.round(total / length)
calculateAverageHappiness(emps) ==
    IF Len(emps) = 0 THEN 0
    ELSE LET RECURSIVE total(_)
             total(s) == IF s = <<>> THEN 0 ELSE Head(s).happiness + total(Tail(s))
         IN (2 * total(emps) + Len(emps)) \div (2 * Len(emps))

\* probability of quitting, in percent
calculateQuitProbability(happiness) ==
    IF happiness >= 60 THEN 0
    ELSE IF happiness >= 40 THEN 5
    ELSE IF happiness >= 20 THEN 15
    ELSE 30

updateAllEmployeeHappiness(emps, g) ==
    [i \in 1 .. Len(emps) |->
       [emps[i] EXCEPT !.happiness = calculateEmployeeHappiness(emps[i], g)]]

----------------------------------------------------------------------------
(* The state a handler reads and writes, and the signals it emits *)

Cur ==
    [grid |-> grid, employees |-> employees, clients |-> clients,
     economy |-> economy, isPaused |-> isPaused, modalState |-> modalState,
     isPlaying |-> isPlaying, signals |-> {}]

\* setModalState({isVisible: true, title, onConfirm})
showModal(s, title, onConfirm) ==
    [s EXCEPT !.modalState = [isVisible |-> TRUE, title |-> title,
                              onConfirm |-> onConfirm, tiles |-> <<>>],
              !.signals = @ \cup {title}]

----------------------------------------------------------------------------
(* Employee and client management *)

\* a hire that does not look at the cash
handleHireEmployeeOnCredit(s, id) ==
    LET availableDesk == findAvailableDesk(s.grid)
    IN IF availableDesk = null
       THEN showModal(s, "No Available Desks", "hide")
       ELSE LET x == availableDesk[1]
                y == availableDesk[2]
                newEmployee == [generateEmployee(id, baseSalary) EXCEPT
                                  !.assignedDeskId = deskIdOf(x, y)]
            IN [s EXCEPT !.grid[y][x].assignedEmployeeId = id,
                         !.employees = Append(@, newEmployee),
                         !.economy.cash = @ - hiringCost]


handleHireEmployee(s, id) ==
    LET availableDesk == findAvailableDesk(s.grid)
    IN IF availableDesk = null
       THEN showModal(s, "No Available Desks", "hide")
       ELSE IF s.economy.cash < hiringCost
       THEN showModal(s, "Insufficient Funds", "hide")
       ELSE LET x == availableDesk[1]
                y == availableDesk[2]
                newEmployee == [generateEmployee(id, baseSalary) EXCEPT
                                  !.assignedDeskId = deskIdOf(x, y)]
            IN [s EXCEPT !.grid[y][x].assignedEmployeeId = id,
                         !.employees = Append(@, newEmployee),
                         !.economy.cash = @ - hiringCost]

\* a fire that leaves the desk assigned
handleFireEmployeeKeepDesk(s, employeeId) ==
    LET found == {i \in 1 .. Len(s.employees) : s.employees[i].id = employeeId}
    IN IF found = {} THEN s
       ELSE LET employee == s.employees[CHOOSE i \in found : \A j \in found : i <= j]
            IN [s EXCEPT !.economy.cash = @ - employee.salary,
                         !.employees = Without(@, found, 1)]


handleFireEmployee(s, employeeId) ==
    LET found == {i \in 1 .. Len(s.employees) : s.employees[i].id = employeeId}
    IN IF found = {} THEN s
       ELSE LET employee == s.employees[CHOOSE i \in found : \A j \in found : i <= j]
                cleared ==
                  IF employee.assignedDeskId = null THEN s.grid
                  ELSE [s.grid EXCEPT
                          ![deskY(employee.assignedDeskId)][deskX(employee.assignedDeskId)]
                             .assignedEmployeeId = NoEmployee]
            IN [s EXCEPT !.grid = cleared,
                         !.economy.cash = @ - employee.salary,
                         !.employees = Without(@, found, 1)]

\* the desk test reads furnitureType and assignedEmployeeId only; the desk
\* the employee had before is not touched
handleAssignEmployeeToDesk(s, employeeId, x, y) ==
    LET cell == s.grid[y][x]
    IN IF cell.furnitureType # "desk" \/ cell.assignedEmployeeId # NoEmployee THEN s
       ELSE [s EXCEPT !.grid[y][x].assignedEmployeeId = employeeId,
                      !.employees = [i \in 1 .. Len(@) |->
                                       IF @[i].id = employeeId
                                       THEN [@[i] EXCEPT !.assignedDeskId = deskIdOf(x, y)]
                                       ELSE @[i]]]

handleAcquireClient(s, revenue) ==
    IF s.economy.cash < marketingCost
    THEN showModal(s, "Insufficient Funds", "hide")
    ELSE IF Len(s.clients) >= maxClientCount
    THEN showModal(s, "Maximum Clients Reached", "hide")
    ELSE [s EXCEPT !.economy.cash = @ - marketingCost,
                   !.clients = Append(@, generateClient(revenue))]

----------------------------------------------------------------------------
(* Month tick *)

deskCount(g) ==
    Cardinality({p \in Xs \X Ys :
                   g[p[2]][p[1]].furnitureType = "desk" /\ g[p[2]][p[1]].isOrigin})

monthlyExpensesOf(s) == calculateMonthlySalaries(s.employees) + deskCount(s.grid) * deskRent

\* a tick that charges the salaries only
tickEconomySalariesOnly(s) ==
    LET revenue == calculateMonthlyRevenue(s.clients)
        expenses == calculateMonthlySalaries(s.employees)
    IN [cash |-> s.economy.cash + revenue - expenses,
        monthlyRevenue |-> revenue, monthlyExpenses |-> expenses]

\* setEconomy of both triggers
tickEconomy(s) ==
    LET revenue == calculateMonthlyRevenue(s.clients)
        expenses == monthlyExpensesOf(s)
    IN [cash |-> s.economy.cash + revenue - expenses,
        monthlyRevenue |-> revenue, monthlyExpenses |-> expenses]

\* a variant that does not look at the client count
tickClientsUncapped(s, leave, coin, revenue) ==
    LET churned == applyClientChurn(s.clients, Len(s.employees), leave)
    IN IF shouldAcquirePassiveClient(Len(s.employees), coin)
       THEN Append(churned, generateClient(revenue))
       ELSE churned

\* churn and passive acquisition of both triggers; the employee count and
\* the client count are those of the render the handler closed over
tickClients(s, leave, coin, revenue) ==
    LET churned == applyClientChurn(s.clients, Len(s.employees), leave)
    IN IF shouldAcquirePassiveClient(Len(s.employees), coin)
          /\ Len(s.clients) < maxClientCount
       THEN Append(churned, generateClient(revenue))
       ELSE churned

\* the employees who quit: quitChance > 0 and the draw falls below it
quitters(emps, draws) ==
    {i \in 1 .. Len(emps) :
        calculateQuitProbability(emps[i].happiness) > 0 /\ i \in draws}

\* desks of the quitters are cleared, one setGrid per quitter
clearDesks(g, emps, quit) ==
    [y \in Ys |-> [x \in Xs |->
       IF \E i \in quit : emps[i].assignedDeskId = deskIdOf(x, y)
       THEN [g[y][x] EXCEPT !.assignedEmployeeId = NoEmployee]
       ELSE g[y][x]]]

bankruptcyModal(s) == showModal([s EXCEPT !.isPaused = TRUE], "Bankruptcy!", "bankruptcy")

\* a variant whose quit trials read the happiness of the month before
monthlyCycleOnPreviousHappiness(s, draws, discarded, leave, coin, revenue) ==
    LET expenses == monthlyExpensesOf(s)
        updated == updateAllEmployeeHappiness(s.employees, s.grid)
        quit == quitters(s.employees, draws)
        t == [s EXCEPT !.economy = tickEconomy(s),
                       !.employees = Without(updated, quit, 1),
                       !.grid = clearDesks(s.grid, updated,
                                           quit \cup quitters(s.employees, discarded)),
                       !.clients = tickClients(s, leave, coin, revenue)]
    IN IF s.economy.cash < -expenses /\ expenses > 0
       THEN bankruptcyModal(t) ELSE t

\* a variant of the effect that sets the interval up under the tutorial
timerRunsUnderTutorial(paused, tutorialVisible) == ~paused

\* if (isPaused || isTutorialVisible) return, before setInterval
timerRuns(paused, tutorialVisible) == ~(paused \/ tutorialVisible)

\* now - economy.lastMonthTick >= monthDuration
monthHasElapsed(sinceLastMonthTick) == sinceLastMonthTick >= monthDuration

\* The interval callback of the monthly cycle effect, once a month has
\* elapsed.  The quit filter is the updater handed to setEmployees: it draws
\* the random numbers and calls setGrid for the desk of every quitter.  When
\* React invokes the updater a second time it keeps the roster of one
\* invocation (draws), while the setGrid calls of the other (discarded) are
\* queued all the same.
monthlyCycle(s, draws, discarded, leave, coin, revenue) ==
    LET expenses == monthlyExpensesOf(s)
        updated == updateAllEmployeeHappiness(s.employees, s.grid)
        quit == quitters(updated, draws)
        t == [s EXCEPT !.economy = tickEconomy(s),
                       !.employees = Without(updated, quit, 1),
                       !.grid = clearDesks(s.grid, updated,
                                           quit \cup quitters(updated, discarded)),
                       !.clients = tickClients(s, leave, coin, revenue)]
    IN IF s.economy.cash < -expenses /\ expenses > 0
       THEN bankruptcyModal(t) ELSE t

handleAdvanceMonth(s, leave, coin, revenue) ==
    LET revenueNow == calculateMonthlyRevenue(s.clients)
        expenses == monthlyExpensesOf(s)
        t == [s EXCEPT !.economy = tickEconomy(s),
                       !.clients = tickClients(s, leave, coin, revenue)]
    IN IF s.economy.cash + revenueNow - expenses < -expenses /\ expenses > 0
       THEN bankruptcyModal(t) ELSE t

----------------------------------------------------------------------------
(* Victory effect *)

victoryCondition(level, emps, cs) ==
    LET currentLevel == getLevel(level)
    IN /\ currentLevel # missing
       /\ Len(emps) >= currentLevel.employees
       /\ Len(cs) >= currentLevel.clients
       /\ (currentLevel.happiness = 0
            \/ calculateAverageHappiness(emps) >= currentLevel.happiness)

victoryTitle(level) == IF level = "level_1" THEN "Level Complete!" ELSE "Victory!"

\* the effect runs after a render in which one of its dependencies changed
victoryDepsChanged(prev, s) ==
    \/ prev.employees # s.employees
    \/ Len(prev.clients) # Len(s.clients)
    \/ prev.isPaused # s.isPaused
    \/ prev.economy.cash # s.economy.cash

victoryEffect(prev, s) ==
    IF ~s.isPlaying \/ ~victoryDepsChanged(prev, s) \/ s.isPaused THEN s
    ELSE IF victoryCondition(levelId, s.employees, s.clients)
    THEN showModal([s EXCEPT !.isPaused = TRUE], victoryTitle(levelId), "victory")
    ELSE s

----------------------------------------------------------------------------
(* Tile click, Building tool *)

\* furniture that may also stand on asphalt
placementCollidesOffTheFloor(isFurniture, isDecoration, cellType) ==
    IF isFurniture THEN cellType \notin {"Tile", "Asphalt"}
    ELSE IF isDecoration THEN cellType \notin {"Grass", "Tile", "Snow"}
    ELSE cellType # "Grass"

\* the surface test of one covered cell: furniture stands on Tile only, a
\* decoration on Grass, Tile or Snow, a regular building on Grass only
placementCollides(isFurniture, isDecoration, cellType) ==
    IF isFurniture THEN cellType # "Tile"
    ELSE IF isDecoration THEN cellType \notin {"Grass", "Tile", "Snow"}
    ELSE cellType # "Grass"

\* The whole of handleTileClick is the updater handed to setGrid, and the
\* updater itself calls setEconomy.  React invokes an updater once, or twice
\* when it double-invokes updaters (StrictMode, the default of development
\* builds); every invocation queues its own setEconomy.
UpdaterRuns == {1, 2}

\* The cash check reads the economy the memoized callback closed over
\* (capturedCash); the deduction goes through setEconomy on the current one,
\* once per invocation of the updater (runs).
handleTileClickBuilding(s, capturedCash, buildingId, x, y, runs) ==
    IF buildingId = noBuildingId THEN s
    ELSE
    LET furniture == getFurniture(buildingId)
        building == IF furniture # missing THEN missing ELSE getBuilding(buildingId)
    IN IF furniture = missing /\ building = missing THEN s
       ELSE IF furniture # missing /\ capturedCash < furniture.cost
       THEN showModal(s, "Insufficient Funds", "hide")
       ELSE
       LET footprint == IF furniture # missing THEN getFurnitureFootprint(furniture)
                        ELSE getBuildingFootprint(building)
           bOriginX == x - footprint.width + 1
           bOriginY == y - footprint.height + 1
           isDecoration == IF building # missing
                           THEN building.category = "props" \/ building.isDecoration
                           ELSE FALSE
           covered == {p \in Xs \X Ys :
                         /\ p[1] >= bOriginX /\ p[1] < bOriginX + footprint.width
                         /\ p[2] >= bOriginY /\ p[2] < bOriginY + footprint.height}
           buildingHasCollision ==
               \E p \in covered :
                   placementCollides(furniture # missing, isDecoration,
                                     s.grid[p[2]][p[1]].type)
           placed(c, px, py) ==
               LET c1 == [c EXCEPT !.type = "Building", !.buildingId = buildingId,
                                   !.isOrigin = (px = bOriginX /\ py = bOriginY),
                                   !.originX = bOriginX, !.originY = bOriginY]
                   c2 == IF isDecoration THEN [c1 EXCEPT !.underlyingTileType = c.type] ELSE c1
               IN IF furniture # missing
                  THEN [c2 EXCEPT !.furnitureType = furniture.furnitureType] ELSE c2
       IN IF \/ bOriginX < 0 \/ bOriginY < 0
             \/ bOriginX + footprint.width > GRID_WIDTH
             \/ bOriginY + footprint.height > GRID_HEIGHT
          THEN s
          ELSE IF buildingHasCollision THEN s
          ELSE [s EXCEPT
                  !.grid = [py \in Ys |-> [px \in Xs |->
                              IF <<px, py>> \in covered
                              THEN placed(s.grid[py][px], px, py) ELSE s.grid[py][px]]],
                  !.economy.cash = IF furniture # missing
                                   THEN @ - runs * furniture.cost ELSE @]

----------------------------------------------------------------------------
(* Tile click and drags, the other tools *)

\* Road segments (roadUtils): a segment exists at (sx, sy) when every cell of
\* its footprint is Road or Asphalt and has the segment's origin.
ROAD_SEGMENT_SIZE == 4

hasRoadSegment(g, sx, sy) ==
    /\ sx >= 0 /\ sy >= 0
    /\ sx + ROAD_SEGMENT_SIZE <= GRID_WIDTH /\ sy + ROAD_SEGMENT_SIZE <= GRID_HEIGHT
    /\ \A px \in sx .. sx + ROAD_SEGMENT_SIZE - 1, py \in sy .. sy + ROAD_SEGMENT_SIZE - 1 :
          /\ g[py][px].type \in {"Road", "Asphalt"}
          /\ g[py][px].originX = sx /\ g[py][px].originY = sy

\* the segment a cell belongs to: segments are aligned to multiples of the
\* segment size
getRoadSegmentOrigin(x, y) ==
    <<(x \div ROAD_SEGMENT_SIZE) * ROAD_SEGMENT_SIZE,
      (y \div ROAD_SEGMENT_SIZE) * ROAD_SEGMENT_SIZE>>

\* a segment is placed on a footprint that lies within the grid and is Grass
canPlaceRoadSegment(g, sx, sy) ==
    /\ sx >= 0 /\ sy >= 0
    /\ sx + ROAD_SEGMENT_SIZE <= GRID_WIDTH /\ sy + ROAD_SEGMENT_SIZE <= GRID_HEIGHT
    /\ \A px \in sx .. sx + ROAD_SEGMENT_SIZE - 1, py \in sy .. sy + ROAD_SEGMENT_SIZE - 1 :
          g[py][px].type = "Grass"

\* the segment and its four cardinal neighbours
getAffectedSegments(sx, sy) ==
    << <<sx, sy>>, <<sx, sy - ROAD_SEGMENT_SIZE>>, <<sx + ROAD_SEGMENT_SIZE, sy>>,
       <<sx, sy + ROAD_SEGMENT_SIZE>>, <<sx - ROAD_SEGMENT_SIZE, sy>> >>

\* which cardinal neighbours are segments
getRoadConnections(g, sx, sy) ==
    [north |-> hasRoadSegment(g, sx, sy - ROAD_SEGMENT_SIZE),
     east |-> hasRoadSegment(g, sx + ROAD_SEGMENT_SIZE, sy),
     south |-> hasRoadSegment(g, sx, sy + ROAD_SEGMENT_SIZE),
     west |-> hasRoadSegment(g, sx - ROAD_SEGMENT_SIZE, sy)]

\* the fixed lookup from the connections to the kind of segment; the type
\* keeps the sides the segment is linked on, which give its orientation
getSegmentType(connections) ==
    LET links == {d \in {"north", "east", "south", "west"} : connections[d]}
        n == Cardinality(links)
    IN [kind |-> CASE n = 0 -> "isolated"
                   [] n = 1 -> "dead-end"
                   [] n = 2 -> IF links \in {{"north", "south"}, {"east", "west"}}
                               THEN "straight" ELSE "corner"
                   [] n = 3 -> "t-junction"
                   [] n = 4 -> "cross",
        links |-> links]

\* the tile pattern of a segment type, one tile per cell of the footprint: the
\* road body in the middle and towards every linked side, asphalt elsewhere
generateRoadPattern(segmentType) ==
    LET last == ROAD_SEGMENT_SIZE - 1
        middle == 1 .. last - 1
        body(dx, dy) ==
            \/ dx \in middle /\ dy \in middle
            \/ dy = 0 /\ dx \in middle /\ "north" \in segmentType.links
            \/ dy = last /\ dx \in middle /\ "south" \in segmentType.links
            \/ dx = 0 /\ dy \in middle /\ "west" \in segmentType.links
            \/ dx = last /\ dy \in middle /\ "east" \in segmentType.links
    IN {[dx |-> dx, dy |-> dy, type |-> IF body(dx, dy) THEN "Road" ELSE "Asphalt"] :
          dx \in 0 .. last, dy \in 0 .. last}

\* the raw placement of a segment: its cells become Road with the segment's
\* origin
placeRoadCells(g, sx, sy) ==
    [py \in Ys |-> [px \in Xs |->
       IF /\ px >= sx /\ px < sx + ROAD_SEGMENT_SIZE
          /\ py >= sy /\ py < sy + ROAD_SEGMENT_SIZE
       THEN [g[py][px] EXCEPT !.isOrigin = (px = sx /\ py = sy),
                              !.originX = sx, !.originY = sy, !.type = "Road"]
       ELSE g[py][px]]]

\* the pattern of the segment at (sx, sy) is written on the grid: only the
\* type of a cell is assigned
applyRoadPattern(g, sx, sy) ==
    LET pattern == generateRoadPattern(getSegmentType(getRoadConnections(g, sx, sy)))
    IN [py \in Ys |-> [px \in Xs |->
          IF \E tile \in pattern : px = sx + tile.dx /\ py = sy + tile.dy
          THEN [g[py][px] EXCEPT
                  !.type = (CHOOSE tile \in pattern :
                              px = sx + tile.dx /\ py = sy + tile.dy).type]
          ELSE g[py][px]]]

\* a variant of the re-tiling loop that does not ask whether a segment exists
RECURSIVE retileAbsentToo(_, _)
retileAbsentToo(g, segs) ==
    IF segs = <<>> THEN g
    ELSE LET seg == Head(segs)
         IN retileAbsentToo(IF /\ seg[1] >= 0 /\ seg[2] >= 0
                               /\ seg[1] + ROAD_SEGMENT_SIZE <= GRID_WIDTH
                               /\ seg[2] + ROAD_SEGMENT_SIZE <= GRID_HEIGHT
                            THEN applyRoadPattern(g, seg[1], seg[2]) ELSE g,
                            Tail(segs))

\* the re-tiling loop: the segments of the list that exist get their pattern
RECURSIVE retile(_, _)
retile(g, segs) ==
    IF segs = <<>> THEN g
    ELSE LET seg == Head(segs)
         IN retile(IF hasRoadSegment(g, seg[1], seg[2])
                   THEN applyRoadPattern(g, seg[1], seg[2]) ELSE g,
                   Tail(segs))

\* case RoadNetwork of handleTileClick
placeRoadAt(g, x, y) ==
    LET segmentOrigin == getRoadSegmentOrigin(x, y)
    IN IF ~canPlaceRoadSegment(g, segmentOrigin[1], segmentOrigin[2]) THEN g
       ELSE retile(placeRoadCells(g, segmentOrigin[1], segmentOrigin[2]),
                   getAffectedSegments(segmentOrigin[1], segmentOrigin[2]))

\* a variant of the drag that gives up at the first segment it cannot place
RECURSIVE placeRoadSegmentsUntilFailure(_, _)
placeRoadSegmentsUntilFailure(g, segments) ==
    IF segments = <<>> THEN g
    ELSE LET seg == Head(segments)
         IN IF canPlaceRoadSegment(g, seg[1], seg[2])
            THEN placeRoadSegmentsUntilFailure(placeRoadCells(g, seg[1], seg[2]),
                                               Tail(segments))
            ELSE g

\* the placement loop of handleRoadDrag: a segment that cannot be placed is
\* passed over
RECURSIVE placeRoadSegments(_, _)
placeRoadSegments(g, segments) ==
    IF segments = <<>> THEN g
    ELSE LET seg == Head(segments)
         IN placeRoadSegments(IF canPlaceRoadSegment(g, seg[1], seg[2])
                              THEN placeRoadCells(g, seg[1], seg[2]) ELSE g,
                              Tail(segments))

\* the affected segments of a whole batch, each once, in the order of their
\* first occurrence
RECURSIVE allAffectedSegments(_, _)
allAffectedSegments(segments, seen) ==
    IF segments = <<>> THEN seen
    ELSE LET affected == getAffectedSegments(Head(segments)[1], Head(segments)[2])
             isNew(seg) == \A i \in 1 .. Len(seen) : seen[i] # seg
         IN allAffectedSegments(Tail(segments), seen \o SelectSeq(affected, isNew))

handleRoadDrag(s, segments) ==
    IF segments = <<>> THEN s
    ELSE LET placed == placeRoadSegments(s.grid, segments)
         IN IF placed = s.grid THEN s
            ELSE [s EXCEPT !.grid = retile(placed, allAffectedSegments(segments, <<>>))]

\* a variant of the removal that leaves the neighbouring segments as tiled
deleteRoadSegmentOnly(g, originX, originY) ==
    [py \in Ys |-> [px \in Xs |->
       IF /\ px >= originX /\ px < originX + ROAD_SEGMENT_SIZE
          /\ py >= originY /\ py < originY + ROAD_SEGMENT_SIZE
       THEN [g[py][px] EXCEPT !.type = "Grass", !.isOrigin = TRUE,
                              !.originX = NoCoord, !.originY = NoCoord]
       ELSE g[py][px]]]

\* the cells of a deleted road segment go back to Grass and its neighbours
\* are re-tiled
deleteRoadSegment(g, originX, originY) ==
    LET isNeighbor(seg) == seg[1] # originX \/ seg[2] # originY
        neighbors == SelectSeq(getAffectedSegments(originX, originY), isNeighbor)
        cleared ==
          [py \in Ys |-> [px \in Xs |->
             IF /\ px >= originX /\ px < originX + ROAD_SEGMENT_SIZE
                /\ py >= originY /\ py < originY + ROAD_SEGMENT_SIZE
             THEN [g[py][px] EXCEPT !.type = "Grass", !.isOrigin = TRUE,
                                    !.originX = NoCoord, !.originY = NoCoord]
             ELSE g[py][px]]]
    IN retile(cleared, neighbors)

\* the cell types a surface tool converts
convertible(tool) ==
    CASE tool = "Tile" -> {"Grass", "Snow"}
      [] tool = "Asphalt" -> {"Grass", "Snow", "Tile"}
      [] tool = "Snow" -> {"Grass", "Tile"}
      [] OTHER -> {}

\* cases Tile, Asphalt and Snow of handleTileClick, and one tile of a drag:
\* under a decoration only the underlying type changes
paintTile(g, tool, x, y) ==
    LET cell == g[y][x]
        building == IF cell.buildingId = undefined THEN missing
                    ELSE getBuilding(cell.buildingId)
    IN IF cell.type = "Building" /\ cell.buildingId # undefined
       THEN IF building # missing /\ (building.category = "props" \/ building.isDecoration)
            THEN [g EXCEPT ![y][x].underlyingTileType = tool]
            ELSE g
       ELSE IF cell.type \in convertible(tool)
       THEN [g EXCEPT ![y][x].type = tool, ![y][x].isOrigin = TRUE,
                      ![y][x].originX = x, ![y][x].originY = y]
       ELSE g

\* the w x h cells from (originX, originY) are reset to Grass
clearObject(g, originX, originY, sizeW, sizeH) ==
    [py \in Ys |-> [px \in Xs |->
       IF /\ px >= originX /\ px < originX + sizeW
          /\ py >= originY /\ py < originY + sizeH
       THEN [g[py][px] EXCEPT !.type = "Grass", !.buildingId = undefined,
                              !.isOrigin = TRUE,
                              !.originX = NoCoord, !.originY = NoCoord]
       ELSE g[py][px]]]

\* the footprint the eraser uses: that of the building registry, 1 x 1 for
\* anything the registry does not know
erasedFootprint(cell) ==
    LET building == IF cell.type = "Building" /\ cell.buildingId # undefined
                    THEN getBuilding(cell.buildingId) ELSE missing
    IN IF building # missing THEN getBuildingFootprint(building)
       ELSE [width |-> 1, height |-> 1]

\* case Eraser of handleTileClick
eraseAt(g, x, y) ==
    LET cell == g[y][x]
        originX == cell.originX
        originY == cell.originY
    IN IF originX # NoCoord /\ originY # NoCoord
       THEN IF hasRoadSegment(g, originX, originY) /\ cell.type \in {"Road", "Asphalt"}
            THEN deleteRoadSegment(g, originX, originY)
            ELSE clearObject(g, originX, originY,
                             erasedFootprint(cell).width, erasedFootprint(cell).height)
       ELSE IF cell.type # "Grass"
       THEN [g EXCEPT ![y][x].type = "Grass", ![y][x].isOrigin = TRUE]
       ELSE g

handleTileClick(s, tool, capturedCash, buildingId, x, y, runs) ==
    CASE tool \in {"Tile", "Asphalt", "Snow"} ->
             [s EXCEPT !.grid = paintTile(s.grid, tool, x, y)]
      [] tool = "Building" ->
             handleTileClickBuilding(s, capturedCash, buildingId, x, y, runs)
      [] tool = "Eraser" -> [s EXCEPT !.grid = eraseAt(s.grid, x, y)]
      [] tool = "RoadNetwork" -> [s EXCEPT !.grid = placeRoadAt(s.grid, x, y)]
      [] OTHER -> s

RECURSIVE paintTiles(_, _, _)
paintTiles(g, tool, tiles) ==
    IF tiles = <<>> THEN g
    ELSE LET x == Head(tiles)[1]
             y == Head(tiles)[2]
         IN paintTiles(IF x \in Xs /\ y \in Ys THEN paintTile(g, tool, x, y) ELSE g,
                       tool, Tail(tiles))

handleTilesDrag(s, tool, tiles) ==
    IF tiles = <<>> THEN s
    ELSE [s EXCEPT !.grid = paintTiles(s.grid, tool, tiles)]

\* originX ?? x
originOr(coord, fallback) == IF coord = NoCoord THEN fallback ELSE coord

\* the loop of performDeletion over the dragged tiles; an origin is deleted
\* once per drag (deletedOrigins)
RECURSIVE deleteTiles(_, _, _)
deleteTiles(g, tiles, deletedOrigins) ==
    IF tiles = <<>> THEN g
    ELSE
    LET x == Head(tiles)[1]
        y == Head(tiles)[2]
    IN IF ~(x \in Xs /\ y \in Ys) THEN deleteTiles(g, Tail(tiles), deletedOrigins)
       ELSE
       LET cell == g[y][x]
           originX == originOr(cell.originX, x)
           originY == originOr(cell.originY, y)
           originKey == <<originX, originY>>
           single == [g EXCEPT ![y][x].type = "Grass", ![y][x].isOrigin = TRUE,
                               ![y][x].originX = NoCoord, ![y][x].originY = NoCoord]
           deleted ==
             IF cell.type \in {"Road", "Asphalt"}
             THEN IF hasRoadSegment(g, originX, originY)
                  THEN deleteRoadSegment(g, originX, originY) ELSE single
             ELSE IF cell.type = "Building" /\ cell.buildingId # undefined
             THEN clearObject(g, originX, originY,
                              erasedFootprint(cell).width, erasedFootprint(cell).height)
             ELSE single
       IN IF cell.type = "Grass" \/ originKey \in deletedOrigins
          THEN deleteTiles(g, Tail(tiles), deletedOrigins)
          ELSE deleteTiles(deleted, Tail(tiles), deletedOrigins \cup {originKey})

performDeletion(s, tiles) == [s EXCEPT !.grid = deleteTiles(s.grid, tiles, {})]

\* the distinct items a drag of the eraser would delete: one per origin
\* among the dragged cells that are not Grass
itemsToDelete(g, tiles) ==
    {<<originOr(g[t[2]][t[1]].originX, t[1]), originOr(g[t[2]][t[1]].originY, t[2])>> :
        t \in {u \in {tiles[i] : i \in 1 .. Len(tiles)} \cap (Xs \X Ys) :
                  g[u[2]][u[1]].type # "Grass"}}

\* several items are deleted only after a confirmation: the modal keeps the
\* dragged tiles for its onConfirm
handleEraserDrag(s, tiles) ==
    IF tiles = <<>> THEN s
    ELSE IF itemsToDelete(s.grid, tiles) = {} THEN s
    ELSE IF Cardinality(itemsToDelete(s.grid, tiles)) > 1
    THEN [s EXCEPT !.modalState = [isVisible |-> TRUE, title |-> "Confirm Deletion",
                                   onConfirm |-> "delete", tiles |-> tiles],
                   !.signals = @ \cup {"Confirm Deletion"}]
    ELSE performDeletion(s, tiles)

----------------------------------------------------------------------------
(* Modal *)

\* the onConfirm closure stored in modalState
\* a variant whose bankruptcy closure resumes the game like the victory one
confirmModalResuming(s) ==
    LET hidden == [s EXCEPT !.modalState.isVisible = FALSE]
    IN CASE s.modalState.onConfirm \in {"bankruptcy", "victory"} ->
              IF onReturnToMenu THEN [hidden EXCEPT !.isPlaying = FALSE]
              ELSE [hidden EXCEPT !.isPaused = FALSE]
         [] s.modalState.onConfirm = "delete" ->
              performDeletion(s, s.modalState.tiles)
         [] OTHER -> hidden

confirmModal(s) ==
    LET hidden == [s EXCEPT !.modalState.isVisible = FALSE]
    IN CASE s.modalState.onConfirm = "bankruptcy" ->
              IF onReturnToMenu THEN [hidden EXCEPT !.isPlaying = FALSE] ELSE hidden
         [] s.modalState.onConfirm = "victory" ->
              IF onReturnToMenu THEN [hidden EXCEPT !.isPlaying = FALSE]
              ELSE [hidden EXCEPT !.isPaused = FALSE]
         [] s.modalState.onConfirm = "delete" ->
              performDeletion(s, s.modalState.tiles)
         [] OTHER -> hidden

closeModal(s) ==
    [s EXCEPT !.modalState.isVisible = FALSE, !.modalState.onConfirm = "null"]

----------------------------------------------------------------------------
(* Inputs *)

Levels == {"level_1", "level_2", "level_3"}
ClientRevenues == {2000, 4999}      \* ends of floor(random * 3000) + 2000
PlaceItems == {"basic-desk", "executive-desk", "conference-room", "office-plant",
               "house", "tree"}
ClickCells == {<<0, 0>>, <<2, 4>>, <<3, 4>>, <<5, 4>>, <<5, 5>>}
EditTools == {"Eraser", "Tile", "Snow", "RoadNetwork"}
DragTiles == {<< <<6, 5>> >>, << <<2, 4>>, <<3, 4>> >>,
              << <<5, 4>>, <<5, 5>>, <<6, 5>> >>,
              << <<3, 3>>, <<2, 4>>, <<3, 4>> >>}

\* the segments of a road drag: origins of segments, also of one that holds
\* the founder's desk and of one that crosses the edge of the grid
RoadDrags ==
    {<< <<0, 0>>, <<ROAD_SEGMENT_SIZE, 0>> >>,
     << <<0, ROAD_SEGMENT_SIZE>>, <<ROAD_SEGMENT_SIZE, ROAD_SEGMENT_SIZE>>, <<0, 0>> >>,
     << <<2 * ROAD_SEGMENT_SIZE, 0>>, <<ROAD_SEGMENT_SIZE, 0>> >>}

SubsetsUpTo(S, n) == {T \in SUBSET S : Cardinality(T) <= n}

\* the clients a tick lets go: drawn among the first and the last of the list
churnCandidates(cs) ==
    SubsetsUpTo(IF cs = <<>> THEN {} ELSE {1, Len(cs)}, MaxChurn)

\* the employees whose quit draw succeeds: among the first and the last
quitCandidates(emps) ==
    SubsetsUpTo(IF emps = <<>> THEN {} ELSE {1, Len(emps)}, MaxQuits)

\* ids a fire command is issued for: the first and the last of the roster
\* and one that is not on it
fireCandidates(emps) ==
    {NoEmployee} \cup
    (IF emps = <<>> THEN {} ELSE {emps[1].id, emps[Len(emps)].id})

----------------------------------------------------------------------------
(* Initial states: the board after its initialisation effect *)

initialisedGame(level, returns, tutorial, r1, r2) ==
    LET g0 == initialGrid(level)
        founderDesk == findAvailableDesk(g0)
        founder0 == [generateEmployee(1, 0) EXCEPT !.salary = founderSalary]
        founder == IF founderDesk = null THEN founder0
                   ELSE [founder0 EXCEPT !.assignedDeskId =
                            deskIdOf(founderDesk[1], founderDesk[2])]
    IN /\ grid = IF founderDesk = null THEN g0
                 ELSE [g0 EXCEPT ![founderDesk[2]][founderDesk[1]].assignedEmployeeId = 1]
       /\ employees = <<founder>>
       /\ clients = <<generateClient(r1), generateClient(r2)>>
       /\ economy = [cash |-> startingCash, monthlyRevenue |-> 0, monthlyExpenses |-> 0]
       /\ elapsed = 0
       /\ isPaused = FALSE
       /\ isTutorialVisible = tutorial
       /\ modalState = [isVisible |-> FALSE, title |-> "", onConfirm |-> "null",
                       tiles |-> <<>>]
       /\ selectedTool = "None"
       /\ selectedBuildingId = noBuildingId
       /\ tileClickCash = startingCash
       /\ levelId = level
       /\ onReturnToMenu = returns
       /\ isPlaying = TRUE
       /\ nextId = 2
       /\ steps = 0
       /\ ev = [op |-> "init", arg |-> null, signals |-> {}]
       /\ lastPlacement = noPlacement

InitFresh ==
    \E returns \in BOOLEAN :
        initialisedGame("level_1", returns, FALSE, 2000, 4999)

(* Boards some months into a game.  They are built with the handlers        *)
(* themselves (desks bought with the build tool, employees hired one by     *)
(* one), then given the cash, the client list and the happiness values the  *)
(* months played since have left.                                           *)

\* row-major position of a cell
before(p, q) == p[2] < q[2] \/ (p[2] = q[2] /\ p[1] < q[1])
rank(p, S) == Cardinality({q \in S : before(q, p)})

\* the first n cells of S in row-major order
firstCells(S, n) == {p \in S : rank(p, S) < n}

\* basic desks bought with the build tool on the cells `bought`
boughtDesks(g, bought) ==
    [y \in Ys |-> [x \in Xs |->
       IF <<x, y>> \in bought
       THEN [g[y][x] EXCEPT !.type = "Building", !.buildingId = "basic-desk",
                            !.isOrigin = TRUE, !.originX = x, !.originY = y,
                            !.furnitureType = getFurniture("basic-desk").furnitureType]
       ELSE g[y][x]]]

\* the founder at founderDesk, the employees 2, 3, ... hired one by one at
\* the desks `taken`: each took the first desk that was free
seated(g, founderDesk, taken) ==
    [grid |-> [y \in Ys |-> [x \in Xs |->
                 IF <<x, y>> = founderDesk
                 THEN [g[y][x] EXCEPT !.assignedEmployeeId = 1]
                 ELSE IF <<x, y>> \in taken
                 THEN [g[y][x] EXCEPT !.assignedEmployeeId = rank(<<x, y>>, taken) + 2]
                 ELSE g[y][x]]],
     employees |-> [i \in 1 .. Cardinality(taken) + 1 |->
                      LET desk == IF i = 1 THEN founderDesk
                                  ELSE CHOOSE p \in taken : rank(p, taken) = i - 2
                      IN [generateEmployee(i, IF i = 1 THEN founderSalary ELSE baseSalary)
                            EXCEPT !.assignedDeskId = deskIdOf(desk[1], desk[2])]]]

clientList(n) ==
    [i \in 1 .. n |-> generateClient(IF i % 2 = 1 THEN 2000 ELSE 4999)]

\* the first `ticked` employees had their happiness recomputed by a timer
\* tick, the others were hired since and still have their starting value
happinessAfterTick(emps, g, ticked) ==
    [i \in 1 .. Len(emps) |->
       IF i <= ticked
       THEN [emps[i] EXCEPT !.happiness = calculateEmployeeHappiness(emps[i], g)]
       ELSE emps[i]]

midGameBoard(level, returns, desks, hires, ticked, nClients, cash, tool, item, captured) ==
    \E g0 \in {initialGrid(level)} :
    \E free \in {{p \in Xs \X Ys : g0[p[2]][p[1]].type = "Tile"}} :
    \E g1 \in {boughtDesks(g0, firstCells(free, desks))} :
    \E founderDesk \in {findAvailableDesk(g0)} :
    \E open \in {{p \in Xs \X Ys : isFreeDesk(g1[p[2]][p[1]])} \ {founderDesk}} :
    \E b2 \in {seated(g1, founderDesk, firstCells(open, hires))} :
    \E cs \in {clientList(nClients)} :
       /\ grid = b2.grid
       /\ employees = happinessAfterTick(b2.employees, b2.grid, ticked)
       /\ clients = cs
       /\ economy = [cash |-> cash,
                     monthlyRevenue |-> calculateMonthlyRevenue(cs),
                     monthlyExpenses |-> monthlyExpensesOf(b2)]
       /\ elapsed = 0
       /\ isPaused = FALSE
       /\ isTutorialVisible = FALSE
       /\ modalState = [isVisible |-> FALSE, title |-> "", onConfirm |-> "null",
                       tiles |-> <<>>]
       /\ selectedTool = tool
       /\ selectedBuildingId = item
       /\ tileClickCash = captured
       /\ levelId = level
       /\ onReturnToMenu = returns
       /\ isPlaying = TRUE
       /\ nextId = hires + 2
       /\ ev = [op |-> "init", arg |-> null, signals |-> {}]
       /\ lastPlacement = noPlacement

midGame(level, returns, desks, hires, ticked, nClients, cash, tool, item, captured) ==
    /\ midGameBoard(level, returns, desks, hires, ticked, nClients, cash, tool, item,
                    captured)
    /\ steps = 0

\* level 1, one desk bought, nine employees, nineteen clients
InitNearGoal ==
    \E returns \in BOOLEAN :
        midGame("level_1", returns, 1, 8, 9, 19, 12000, "None", noBuildingId, startingCash)

\* level 2 after four months with one client left: the founder alone
InitInsolvent ==
    \E returns \in BOOLEAN :
        midGame("level_2", returns, 0, 0, 1, 1, -7401, "None", noBuildingId, startingCash)

\* level 2 after three months with one client left: the founder alone, the
\* basic desk selected in the first month
InitShortOfCash ==
    \E returns \in BOOLEAN :
        midGame("level_2", returns, 0, 0, 1, 1, 699, "Building", "basic-desk", startingCash)

\* level 3 past its employee and client goals but short of its happiness
\* goal: nine employees seen by the last timer tick, twelve hired since
InitUnhappy ==
    \E returns \in BOOLEAN :
        midGame("level_3", returns, 21, 20, 9, 40, 12000, "None", noBuildingId, startingCash)

\* the cells of the segments `blocks` after the eraser was clicked on each
erasedBlocks(g, blocks) ==
    [y \in Ys |-> [x \in Xs |->
       IF getRoadSegmentOrigin(x, y) \in blocks
       THEN [g[y][x] EXCEPT !.type = "Grass", !.isOrigin = TRUE] ELSE g[y][x]]]

\* the blocks of the board that hold no furniture and lie within the grid
FreeBlocks == {<<0, 0>>, <<ROAD_SEGMENT_SIZE, 0>>, <<0, ROAD_SEGMENT_SIZE>>}

\* level 2 with the founder: the eraser has cleared three blocks, or two of
\* them, to Grass and the road tool is selected
InitRoads ==
    \E kept \in {{}} \cup {{b} : b \in FreeBlocks} :
    \E g0 \in {initialGrid("level_2")} :
    \E founderDesk \in {findAvailableDesk(g0)} :
    \E b2 \in {seated(erasedBlocks(g0, FreeBlocks \ kept), founderDesk, {})} :
       /\ grid = b2.grid
       /\ employees = b2.employees
       /\ clients = clientList(2)
       /\ economy = [cash |-> startingCash,
                     monthlyRevenue |-> 0, monthlyExpenses |-> 0]
       /\ elapsed = 0
       /\ isPaused = FALSE
       /\ isTutorialVisible = FALSE
       /\ modalState = [isVisible |-> FALSE, title |-> "", onConfirm |-> "null",
                        tiles |-> <<>>]
       /\ selectedTool = "RoadNetwork"
       /\ selectedBuildingId = noBuildingId
       /\ tileClickCash = startingCash
       /\ levelId = "level_2"
       /\ onReturnToMenu = TRUE
       /\ isPlaying = TRUE
       /\ nextId = 2
       /\ steps = 0
       /\ ev = [op |-> "init", arg |-> null, signals |-> {}]
       /\ lastPlacement = noPlacement

\* level 1 with ten employees and nineteen clients, one client short of the
\* goals, after a month that took the cash below minus the expenses; one
\* command or tick is explored from there
InitOverdrawn ==
    \E returns \in BOOLEAN :
        /\ midGameBoard("level_1", returns, 1, 9, 10, 19, -66100, "None",
                        noBuildingId, startingCash)
        /\ steps = MaxSteps - 1

\* level 1 with four or five employees and the client list at its maximum
\* or one short of it; two commands or ticks are explored from there
InitCrowded ==
    \E hires \in {3, 4}, nClients \in {maxClientCount - 1, maxClientCount} :
        /\ midGameBoard("level_1", TRUE, 0, hires, hires + 1, nClients,
                        5 * startingCash, "None", noBuildingId, startingCash)
        /\ steps = MaxSteps - 2

(* Offices for the happiness computation: the level 2 board with the        *)
(* founder at the desk in its centre, the buildingId of the desk and the    *)
(* amenities around it drawn from the ids the happiness tables know, and a  *)
(* second employee who has no desk.                                         *)

DeskIds == {"executive-desk", "desk-executive", "desk-premium"}

AmenitySets ==
    {{}, {"water-cooler"}, {"plant"}, {"coffee-machine", "break-area"},
     DOMAIN AMENITY_BUILDINGS}

\* a cell next to the floor's corner for every amenity type and a second
\* one further away; the second plant is out of the plant's range
amenitySpot(id, second) ==
    LET first == CASE id = "coffee-machine" -> <<2, 2>>
                   [] id = "break-area" -> <<3, 2>>
                   [] id = "meeting-room" -> <<4, 2>>
                   [] id = "water-cooler" -> <<2, 3>>
                   [] id = "plant" -> <<centerX, centerY - 1>>
    IN IF ~second THEN first
       ELSE IF id = "plant" THEN <<0, 0>> ELSE <<first[1], first[2] + 4>>

\* the cells `spots` become origin cells of the given buildingId
furnished(g, idAt) ==
    [y \in Ys |-> [x \in Xs |->
       IF <<x, y>> \in DOMAIN idAt
       THEN [g[y][x] EXCEPT !.type = "Building", !.buildingId = idAt[<<x, y>>],
                            !.isOrigin = TRUE, !.originX = x, !.originY = y]
       ELSE g[y][x]]]

InitFurnished ==
    \E deskId \in DeskIds, amenities \in AmenitySets,
       where \in {"near", "far", "both"} :
    \E g0 \in {initialGrid("level_2")} :
    \E founderDesk \in {findAvailableDesk(g0)} :
    \E spots \in {{<<id, amenitySpot(id, second)>> :
                      id \in amenities,
                      second \in (IF where = "near" THEN {FALSE}
                                  ELSE IF where = "far" THEN {TRUE} ELSE BOOLEAN)}} :
    \E g1 \in {furnished(g0, [p \in {sp[2] : sp \in spots} |->
                                CHOOSE id \in amenities : <<id, p>> \in spots])} :
       /\ grid = [g1 EXCEPT ![founderDesk[2]][founderDesk[1]].assignedEmployeeId = 1,
                            ![founderDesk[2]][founderDesk[1]].buildingId = deskId]
       /\ employees =
            << [generateEmployee(1, founderSalary) EXCEPT
                  !.assignedDeskId = deskIdOf(founderDesk[1], founderDesk[2]),
                  !.happiness = 10],
               generateEmployee(2, baseSalary) >>
       /\ clients = <<generateClient(4999)>>
       /\ economy = [cash |-> 5 * startingCash, monthlyRevenue |-> 0, monthlyExpenses |-> 0]
       /\ elapsed = 0
       /\ isPaused = FALSE
       /\ isTutorialVisible = FALSE
       /\ modalState = [isVisible |-> FALSE, title |-> "", onConfirm |-> "null",
                        tiles |-> <<>>]
       /\ selectedTool = "None"
       /\ selectedBuildingId = noBuildingId
       /\ tileClickCash = 5 * startingCash
       /\ levelId = "level_2"
       /\ onReturnToMenu = TRUE
       /\ isPlaying = TRUE
       /\ nextId = 3
       /\ steps = 0
       /\ ev = [op |-> "init", arg |-> null, signals |-> {}]
       /\ lastPlacement = noPlacement

\* a list of purchases, each a click with the Building tool on the cell the
\* item's footprint ends at, followed by a list of hires
RECURSIVE purchased(_, _)
purchased(s, items) ==
    IF items = <<>> THEN s
    ELSE purchased(handleTileClick(s, "Building", s.economy.cash, items[1][1],
                                   items[1][2], items[1][3], 1),
                   Tail(items))

RECURSIVE afterHires(_, _, _)
afterHires(s, id, n) ==
    IF n = 0 THEN s ELSE afterHires(handleHireEmployee(s, id), id + 1, n - 1)

\* the furniture of a level-3 office from the registry: three desks, a coffee
\* station, a break table, a meeting room, a plant and, or not, a water cooler
officeItems(meeting, cooler) ==
    << <<"premium-desk", 2, 2>>, <<"standing-desk", 3, 2>>, <<"basic-desk", 4, 2>>,
       <<"coffee-station", 2, 3>>, <<"break-table", 3, 5>>,
       <<meeting, 7, IF meeting = "small-meeting" THEN 3 ELSE 4>>,
       <<"office-plant", 4, 3>> >> \o
    (IF cooler THEN << <<"water-cooler", 2, 6>> >> ELSE << >>)

\* level 3 after the purchases of officeItems and three hires: the
\* founder at the executive desk of the starter office, the others at the
\* bought desks in the order findAvailableDesk gives
InitLevel3 ==
    \E meeting \in {"small-meeting", "large-meeting"},
       cooler \in BOOLEAN, hires \in {3}, nClients \in {40} :
    \E g0 \in {initialGrid("level_3")} :
    \E founderDesk \in {findAvailableDesk(g0)} :
    \E b0 \in {seated(g0, founderDesk, {})} :
    \E s0 \in {[grid |-> b0.grid, employees |-> b0.employees,
                clients |-> clientList(nClients),
                economy |-> [cash |-> 5 * startingCash,
                             monthlyRevenue |-> 0, monthlyExpenses |-> 0],
                isPaused |-> FALSE,
                modalState |-> [isVisible |-> FALSE, title |-> "",
                                onConfirm |-> "null", tiles |-> <<>>],
                isPlaying |-> TRUE, signals |-> {}]} :
    \E s1 \in {afterHires(purchased(s0, officeItems(meeting, cooler)), 2, hires)} :
       /\ grid = s1.grid
       /\ employees = s1.employees
       /\ clients = s1.clients
       /\ economy = s1.economy
       /\ elapsed = 0
       /\ isPaused = FALSE
       /\ isTutorialVisible = FALSE
       /\ modalState = s1.modalState
       /\ selectedTool = "None"
       /\ selectedBuildingId = noBuildingId
       /\ tileClickCash = s1.economy.cash
       /\ levelId = "level_3"
       /\ onReturnToMenu = TRUE
       /\ isPlaying = TRUE
       /\ nextId = hires + 2
       /\ steps = 0
       /\ ev = [op |-> "init", arg |-> null, signals |-> {}]
       /\ lastPlacement = noPlacement

Init == InitFresh \/ InitInsolvent

InitBuild == InitFresh \/ InitShortOfCash

InitGoal == InitNearGoal \/ InitUnhappy

\* level 1 shows its tutorial to a player who has not seen it
InitTutorial ==
    \E level \in Levels, returns \in BOOLEAN, tutorial \in BOOLEAN :
        /\ tutorial => level = "level_1"
        /\ initialisedGame(level, returns, tutorial, 2000, 4999)

----------------------------------------------------------------------------
(* Steps: a handler, then the effects of the render that follows it *)

Handle(op, arg, s) ==
    LET t == victoryEffect(Cur, s)
    IN /\ lastPlacement' =
            IF op = "click" /\ selectedTool = "Building" /\ t.grid # grid
            THEN [placed |-> TRUE, before |-> grid,
                  cells |-> {p \in Xs \X Ys : t.grid[p[2]][p[1]] # grid[p[2]][p[1]]}]
            ELSE IF t.grid # grid THEN noPlacement ELSE lastPlacement
       /\ grid' = t.grid
       /\ employees' = t.employees
       /\ clients' = t.clients
       /\ economy' = t.economy
       /\ isPaused' = t.isPaused
       /\ modalState' = t.modalState
       /\ isPlaying' = t.isPlaying
       /\ ev' = [op |-> op, arg |-> arg, signals |-> t.signals]

HireEmployee ==
    /\ isPlaying /\ steps < MaxSteps
    /\ Handle("hire", null, handleHireEmployee(Cur, nextId))
    /\ nextId' = nextId + 1
    /\ steps' = steps + 1
    /\ UNCHANGED <<elapsed, isTutorialVisible, selectedTool, selectedBuildingId,
                   tileClickCash, levelId, onReturnToMenu>>

FireEmployee ==
    /\ isPlaying /\ steps < MaxSteps
    /\ \E id \in fireCandidates(employees) :
          Handle("fire", id, handleFireEmployee(Cur, id))
    /\ steps' = steps + 1
    /\ UNCHANGED <<elapsed, isTutorialVisible, selectedTool, selectedBuildingId,
                   tileClickCash, levelId, onReturnToMenu, nextId>>

AcquireClient ==
    /\ isPlaying /\ steps < MaxSteps
    /\ \E r \in ClientRevenues :
          Handle("acquire", null, handleAcquireClient(Cur, r))
    /\ steps' = steps + 1
    /\ UNCHANGED <<elapsed, isTutorialVisible, selectedTool, selectedBuildingId,
                   tileClickCash, levelId, onReturnToMenu, nextId>>

AssignEmployeeToDesk ==
    /\ isPlaying /\ steps < MaxSteps
    /\ \E id \in fireCandidates(employees) \ {NoEmployee}, c \in ClickCells :
          Handle("assign", <<id, c>>, handleAssignEmployeeToDesk(Cur, id, c[1], c[2]))
    /\ steps' = steps + 1
    /\ UNCHANGED <<elapsed, isTutorialVisible, selectedTool, selectedBuildingId,
                   tileClickCash, levelId, onReturnToMenu, nextId>>

\* the 30-second timer: the interval exists while timerRuns and its
\* callback acts once monthHasElapsed
TimerTick ==
    /\ isPlaying /\ steps < MaxSteps
    /\ timerRuns(isPaused, isTutorialVisible)
    /\ monthHasElapsed(elapsed)
    /\ \E draws \in quitCandidates(employees),
          discarded \in quitCandidates(employees),
          leave \in churnCandidates(clients),
          coin \in BOOLEAN, r \in ClientRevenues :
          Handle("timer", null, monthlyCycle(Cur, draws, discarded, leave, coin, r))
    /\ elapsed' = 0
    /\ steps' = steps + 1
    /\ UNCHANGED <<isTutorialVisible, selectedTool, selectedBuildingId,
                   tileClickCash, levelId, onReturnToMenu, nextId>>

\* the 'advance month' button of the dashboard
AdvanceMonth ==
    /\ isPlaying /\ steps < MaxSteps
    /\ \E leave \in churnCandidates(clients),
          coin \in BOOLEAN, r \in ClientRevenues :
          Handle("advance", null, handleAdvanceMonth(Cur, leave, coin, r))
    /\ elapsed' = 0
    /\ steps' = steps + 1
    /\ UNCHANGED <<isTutorialVisible, selectedTool, selectedBuildingId,
                   tileClickCash, levelId, onReturnToMenu, nextId>>

PassTime ==
    /\ isPlaying
    /\ elapsed < monthDuration
    /\ elapsed' = Min(elapsed + ClockStep, monthDuration)
    /\ ev' = [op |-> "wait", arg |-> null, signals |-> {}]
    /\ UNCHANGED <<grid, employees, clients, economy, isPaused, isTutorialVisible,
                   modalState, selectedTool, selectedBuildingId, tileClickCash,
                   levelId, onReturnToMenu, isPlaying, nextId, steps, lastPlacement>>

ConfirmModal ==
    /\ isPlaying
    /\ modalState.isVisible /\ modalState.onConfirm # "null"
    /\ Handle("confirm", null, confirmModal(Cur))
    /\ UNCHANGED <<elapsed, isTutorialVisible, selectedTool, selectedBuildingId,
                   tileClickCash, levelId, onReturnToMenu, nextId, steps>>

CloseModal ==
    /\ isPlaying
    /\ modalState.isVisible
    /\ Handle("close", null, closeModal(Cur))
    /\ UNCHANGED <<elapsed, isTutorialVisible, selectedTool, selectedBuildingId,
                   tileClickCash, levelId, onReturnToMenu, nextId, steps>>

\* onComplete / onSkip of the tutorial: the month timer starts afresh
DismissTutorial ==
    /\ isPlaying
    /\ isTutorialVisible
    /\ isTutorialVisible' = FALSE
    /\ elapsed' = 0
    /\ ev' = [op |-> "tutorialDone", arg |-> null, signals |-> {}]
    /\ UNCHANGED <<grid, employees, clients, economy, isPaused, modalState,
                   selectedTool, selectedBuildingId, tileClickCash, levelId,
                   onReturnToMenu, isPlaying, nextId, steps, lastPlacement>>

\* the tutorial button, level 1 only
OpenTutorial ==
    /\ isPlaying
    /\ levelId = "level_1" /\ ~isTutorialVisible
    /\ isTutorialVisible' = TRUE
    /\ ev' = [op |-> "tutorialOpen", arg |-> null, signals |-> {}]
    /\ UNCHANGED <<grid, employees, clients, economy, elapsed, isPaused, modalState,
                   selectedTool, selectedBuildingId, tileClickCash, levelId,
                   onReturnToMenu, isPlaying, nextId, steps, lastPlacement>>

\* the cap the management bar is given: the employee goal of the level
maxEmployees ==
    IF getLevel(levelId) # missing /\ getLevel(levelId).employees # 0
    THEN getLevel(levelId).employees ELSE defaultMaxEmployees

\* onBuildingSelect; handleTileClick is memoized on the tool and the item, so
\* a new callback (closing over the current economy) exists only when one of
\* them changes
SelectBuilding ==
    /\ isPlaying /\ steps < MaxSteps
    /\ steps' = steps + 1
    /\ \E id \in PlaceItems :
          /\ selectedBuildingId' = id
          /\ selectedTool' = "Building"
          /\ tileClickCash' = IF selectedBuildingId # id \/ selectedTool # "Building"
                               THEN economy.cash ELSE tileClickCash
          /\ ev' = [op |-> "select", arg |-> id, signals |-> {}]
    /\ UNCHANGED <<grid, employees, clients, economy, elapsed, isPaused,
                   isTutorialVisible, modalState, levelId, onReturnToMenu,
                   isPlaying, nextId, lastPlacement>>

TileClick ==
    /\ isPlaying /\ steps < MaxSteps
    /\ selectedTool # "None"
    /\ \E c \in ClickCells, runs \in UpdaterRuns :
          Handle("click", c,
                 handleTileClick(Cur, selectedTool, tileClickCash, selectedBuildingId,
                                 c[1], c[2], runs))
    /\ steps' = steps + 1
    /\ UNCHANGED <<elapsed, isTutorialVisible, selectedTool, selectedBuildingId,
                   tileClickCash, levelId, onReturnToMenu, nextId>>

\* onToolSelect and the eraser button: the tool changes, the selected item
\* stays
SelectTool ==
    /\ isPlaying
    /\ \E tool \in EditTools :
          /\ tool # selectedTool
          /\ selectedTool' = tool
          /\ tileClickCash' = economy.cash
          /\ ev' = [op |-> "tool", arg |-> tool, signals |-> {}]
    /\ UNCHANGED <<grid, employees, clients, economy, elapsed, isPaused,
                   isTutorialVisible, modalState, selectedBuildingId, levelId,
                   onReturnToMenu, isPlaying, nextId, steps, lastPlacement>>

\* a drag with one of the surface tools
TilesDrag ==
    /\ isPlaying /\ steps < MaxSteps
    /\ selectedTool \in {"Tile", "Asphalt", "Snow"}
    /\ \E tiles \in DragTiles :
          Handle("drag", tiles, handleTilesDrag(Cur, selectedTool, tiles))
    /\ steps' = steps + 1
    /\ UNCHANGED <<elapsed, isTutorialVisible, selectedTool, selectedBuildingId,
                   tileClickCash, levelId, onReturnToMenu, nextId>>

\* a drag with the road tool
RoadDrag ==
    /\ isPlaying /\ steps < MaxSteps
    /\ selectedTool = "RoadNetwork"
    /\ \E segments \in RoadDrags :
          Handle("roadDrag", segments, handleRoadDrag(Cur, segments))
    /\ steps' = steps + 1
    /\ UNCHANGED <<elapsed, isTutorialVisible, selectedTool, selectedBuildingId,
                   tileClickCash, levelId, onReturnToMenu, nextId>>

\* a drag with the eraser
EraserDrag ==
    /\ isPlaying /\ steps < MaxSteps
    /\ selectedTool = "Eraser"
    /\ \E tiles \in DragTiles :
          Handle("eraserDrag", tiles, handleEraserDrag(Cur, tiles))
    /\ steps' = steps + 1
    /\ UNCHANGED <<elapsed, isTutorialVisible, selectedTool, selectedBuildingId,
                   tileClickCash, levelId, onReturnToMenu, nextId>>

Next ==
    \/ HireEmployee
    \/ FireEmployee
    \/ AcquireClient
    \/ TimerTick
    \/ AdvanceMonth
    \/ PassTime
    \/ ConfirmModal
    \/ CloseModal

Spec == Init /\ [][Next]_vars

\* the placement tool together with the commands that move cash
NextBuild ==
    \/ SelectBuilding
    \/ TileClick
    \/ HireEmployee
    \/ FireEmployee
    \/ CloseModal

SpecBuild == InitBuild /\ [][NextBuild]_vars

\* games about to reach the goals of their level: the commands that change
\* the roster and the client list, the month tick on command and the modal
NextGoal ==
    \/ HireEmployee
    \/ FireEmployee
    \/ AcquireClient
    \/ AdvanceMonth
    \/ ConfirmModal
    \/ CloseModal

SpecGoal == InitGoal /\ [][NextGoal]_vars

\* level 2 with an item of the build menu selected: a desk of two cells or
\* a decoration
InitPlacing ==
    \E item \in {"executive-desk", "tree"} :
        midGame("level_2", TRUE, 0, 0, 1, 1, startingCash, "Building", item, startingCash)

InitEdit == InitFresh \/ InitPlacing

\* editing the board: placements, the surface tools and the eraser
NextEdit ==
    \/ SelectTool
    \/ TileClick
    \/ TilesDrag
    \/ EraserDrag
    \/ ConfirmModal
    \/ CloseModal

SpecEdit == InitEdit /\ [][NextEdit]_vars

\* level 1 after its first month, the eraser selected
InitErasing ==
    midGame("level_1", TRUE, 0, 0, 1, 2, 15999, "Eraser", noBuildingId, 15999)

\* desks and their occupants: the roster commands, the month on the timer
\* and the eraser
NextDesk ==
    \/ HireEmployee
    \/ FireEmployee
    \/ AssignEmployeeToDesk
    \/ TimerTick
    \/ PassTime
    \/ TileClick

SpecDesk == InitErasing /\ [][NextDesk]_vars

\* the month timer: time, both ticks and the tutorial, from a new game and
\* from the game about to go bankrupt
InitClock == InitTutorial \/ InitInsolvent

NextClock ==
    \/ TimerTick
    \/ AdvanceMonth
    \/ PassTime
    \/ DismissTutorial
    \/ OpenTutorial

SpecClock == InitClock /\ [][NextClock]_vars

\* the road tool and the eraser on a board with room for three segments
NextRoads ==
    \/ SelectTool
    \/ TileClick
    \/ RoadDrag
    \/ EraserDrag
    \/ ConfirmModal
    \/ CloseModal

SpecRoads == InitRoads /\ [][NextRoads]_vars

\* every command and both ticks, from the games a tick takes to bankruptcy
InitBankrupt == InitInsolvent \/ InitOverdrawn

SpecBankrupt == InitBankrupt /\ [][Next]_vars

\* the client list at its cap: marketing and the month tick of both triggers
NextClients ==
    \/ AcquireClient
    \/ TimerTick
    \/ AdvanceMonth
    \/ PassTime
    \/ CloseModal

SpecClients == InitCrowded /\ [][NextClients]_vars

\* the month on the timer in the furnished offices
NextHappiness ==
    \/ TimerTick
    \/ PassTime
    \/ FireEmployee

SpecHappiness == InitFurnished /\ [][NextHappiness]_vars

\* hires, fires and the timer in a furnished level-3 office
NextLevel3 ==
    \/ HireEmployee
    \/ FireEmployee
    \/ TimerTick
    \/ PassTime

SpecLevel3 == InitLevel3 /\ [][NextLevel3]_vars

----------------------------------------------------------------------------
(* Properties *)

\* the step just taken was a month tick of either trigger
tickStep == ev'.op \in {"timer", "advance"}

\* sum of the field f over the records of a sequence
totalRevenue(cs) ==
    LET RECURSIVE sum(_)
        sum(i) == IF i = 0 THEN 0 ELSE cs[i].monthlyRevenue + sum(i - 1)
    IN sum(Len(cs))

totalSalaries(emps) ==
    LET RECURSIVE sum(_)
        sum(i) == IF i = 0 THEN 0 ELSE emps[i].salary + sum(i - 1)
    IN sum(Len(emps))

originDeskCells(g) ==
    {p \in Xs \X Ys : g[p[2]][p[1]].furnitureType = "desk" /\ g[p[2]][p[1]].isOrigin}

\* C1: every month tick, fired by the timer or by the 'advance month'
\* command, leaves cash = cash before + revenue - expenses, where revenue is
\* the sum of the clients' monthlyRevenue and expenses the sum of the salaries
\* plus 100 per origin desk cell, and records these two values as
\* monthlyRevenue and monthlyExpenses.
TickConservation ==
    [][tickStep =>
         LET revenue == totalRevenue(clients)
             expenses == totalSalaries(employees) + 100 * Cardinality(originDeskCells(grid))
         IN economy' = [cash |-> economy.cash + revenue - expenses,
                        monthlyRevenue |-> revenue, monthlyExpenses |-> expenses]]_vars

\* a second month tick has run on a board with clients, salaries and desks
TickConservationWitness ==
    /\ ev.op \in {"timer", "advance"}
    /\ steps = 2
    /\ economy.monthlyRevenue > 0
    /\ economy.monthlyExpenses > totalSalaries(employees)
    /\ Len(employees) > 1

\* C2: after a month tick of either trigger the game is paused with a
\* bankruptcy signal if and only if expenses > 0 and the cash after the tick
\* (cash before + revenue - expenses) is below -expenses.
BankruptcyOnPostTickCash ==
    [][tickStep =>
         LET revenue == totalRevenue(clients)
             expenses == totalSalaries(employees) + 100 * Cardinality(originDeskCells(grid))
             cashAfter == economy.cash + revenue - expenses
         IN ("Bankruptcy!" \in ev'.signals /\ isPaused')
              <=> (expenses > 0 /\ cashAfter < -expenses)]_vars

\* C3: while the game is paused no month tick of either trigger changes
\* cash, monthlyRevenue, monthlyExpenses, the roster or the client list.
NoTickWhilePaused ==
    [][isPaused /\ tickStep => UNCHANGED <<economy, employees, clients>>]_vars



\* the goals of the level hold for a roster and a client list; the average
\* happiness is rounded to the nearest integer
goalsMet(emps, cs) ==
    LET goals == LEVELS[levelId]
        total == LET RECURSIVE sum(_)
                     sum(i) == IF i = 0 THEN 0 ELSE emps[i].happiness + sum(i - 1)
                 IN sum(Len(emps))
        \* round(total / n) >= goal  <=>  2 * total + n >= 2 * n * goal
        happy == goals.happiness = 0
                 \/ (Len(emps) > 0 /\ 2 * total + Len(emps) >= 2 * Len(emps) * goals.happiness)
                 \/ (Len(emps) = 0 /\ 0 >= goals.happiness)
    IN Len(emps) >= goals.employees /\ Len(cs) >= goals.clients /\ happy

victorySignal(signals) == signals \cap {"Level Complete!", "Victory!"} # {}

ManualTickSameAsTimerTick ==
    [][ev'.op = "advance" =>
         \E draws \in quitCandidates(employees), leave \in churnCandidates(clients),
            coin \in BOOLEAN, r \in ClientRevenues :
            LET t == victoryEffect(Cur, monthlyCycle(Cur, draws, draws, leave, coin, r))
            IN /\ economy'.cash = t.economy.cash
               /\ employees' = t.employees
               /\ clients' = t.clients
               /\ isPaused' = t.isPaused]_vars

noDeskFree(g) ==
    ~\E p \in Xs \X Ys :
        /\ g[p[2]][p[1]].furnitureType = "desk"
        /\ g[p[2]][p[1]].isOrigin
        /\ g[p[2]][p[1]].assignedEmployeeId = NoEmployee

\* C6: a hire attempted with cash below 5000 or with no free desk leaves
\* cash, the roster, the client list and the grid unchanged; its only effect
\* is the notice: no desk available when no desk is free, otherwise
\* insufficient funds.
FailedHireChangesNothing ==
    [][(ev'.op = "hire" /\ (economy.cash < 5000 \/ noDeskFree(grid))) =>
         /\ UNCHANGED <<economy, employees, clients, grid>>
         /\ ev'.signals = {IF noDeskFree(grid) THEN "No Available Desks"
                           ELSE "Insufficient Funds"}
         /\ modalState'.isVisible]_vars

\* a hire was refused for lack of funds although a desk was free
FailedHireChangesNothingWitness ==
    /\ ev.op = "hire"
    /\ ev.signals = {"Insufficient Funds"}
    /\ ~noDeskFree(grid)
    /\ economy.cash < 5000

\* C7: firing an employee on the roster clears the assignedEmployeeId of the
\* cell named by the employee's assignedDeskId, takes the salary off the cash
\* (which may become negative) and removes the employee; the client list and
\* monthlyRevenue/monthlyExpenses stay and no bankruptcy is signalled.  Firing
\* an id that is not on the roster changes nothing.
FireDoesThreeThings ==
    [][ev'.op = "fire" =>
         LET found == {i \in 1 .. Len(employees) : employees[i].id = ev'.arg}
         IN IF found = {}
            THEN UNCHANGED <<grid, employees, clients, economy, isPaused, modalState>>
            ELSE \E i \in found :
                   LET desk == employees[i].assignedDeskId
                   IN /\ grid' = IF desk = null THEN grid
                                 ELSE [grid EXCEPT ![desk[2]][desk[1]].assignedEmployeeId
                                                      = NoEmployee]
                      /\ economy' = [economy EXCEPT !.cash = @ - employees[i].salary]
                      /\ employees' = [k \in 1 .. Len(employees) - 1 |->
                                         IF k < i THEN employees[k] ELSE employees[k + 1]]
                      /\ clients' = clients
                      /\ "Bankruptcy!" \notin ev'.signals]_vars

\* the founder was fired with the cash already negative: the desk is free
FireDoesThreeThingsWitness ==
    /\ ev.op = "fire" /\ ev.arg = 1
    /\ employees = <<>>
    /\ economy.cash < -startingCash \div 2
    /\ ~noDeskFree(grid)
    /\ ~isPaused


\* C8: a furniture placement click never succeeds when the current cash is
\* below the cost of the furniture, also when the cash changed after the item
\* was selected: such a click leaves the grid and the cash unchanged.
NoFurnitureWithoutCash ==
    [][(/\ ev'.op = "click"
        /\ selectedBuildingId \in DOMAIN FURNITURE
        /\ economy.cash < FURNITURE[selectedBuildingId].cost)
         => UNCHANGED <<grid, economy>>]_vars

\* C9: with the employee count at its cap a hire request changes neither the
\* roster, the cash nor the grid, and with the client count at its cap an
\* acquire request changes neither the client list nor the cash.
NoChangeAtCap ==
    [][/\ (ev'.op = "hire" /\ Len(employees) >= maxEmployees)
            => UNCHANGED <<employees, economy, grid>>
       /\ (ev'.op = "acquire" /\ Len(clients) >= maxClientCount)
            => UNCHANGED <<clients, economy>>]_vars

\* width and height of the selected item, from its registry
selectedFootprint ==
    IF selectedBuildingId \in DOMAIN FURNITURE
    THEN <<FURNITURE[selectedBuildingId].width, FURNITURE[selectedBuildingId].height>>
    ELSE <<BUILDINGS[selectedBuildingId].width, BUILDINGS[selectedBuildingId].height>>

\* the cell types the selected item may be placed on
acceptedSurfaces ==
    IF selectedBuildingId \in DOMAIN FURNITURE THEN {"Tile"}
    ELSE IF BUILDINGS[selectedBuildingId].category = "props"
            \/ BUILDINGS[selectedBuildingId].isDecoration
    THEN {"Grass", "Tile", "Snow"}
    ELSE {"Grass"}

\* a click at (x, y) with the selected item is out of bounds or collides
invalidPlacement(x, y) ==
    LET w == selectedFootprint[1]
        h == selectedFootprint[2]
        ax == x - w + 1
        ay == y - h + 1
    IN \/ ax < 0 \/ ay < 0 \/ ax + w > GRID_WIDTH \/ ay + h > GRID_HEIGHT
       \/ \E px \in ax .. ax + w - 1, py \in ay .. ay + h - 1 :
             grid[py][px].type \notin acceptedSurfaces

\* C10: a placement click at (x, y) of an item of w x h cells is anchored at
\* (x - w + 1, y - h + 1); when the anchor is negative or anchor + footprint
\* exceeds the grid, or when a covered cell is not of a type the item accepts
\* (furniture: Tile; regular building: Grass; decoration: Grass, Tile or
\* Snow), no cell is modified and no cost is deducted.
InvalidPlacementChangesNothing ==
    [][(ev'.op = "click" /\ invalidPlacement(ev'.arg[1], ev'.arg[2]))
         => UNCHANGED <<grid, economy>>]_vars

\* an executive desk (2 x 1) was clicked onto the first floor cell of a row:
\* its anchor lies on the asphalt border, nothing was placed or charged
InvalidPlacementChangesNothingWitness ==
    /\ ev.op = "click" /\ ev.arg = <<2, 4>>
    /\ selectedBuildingId = "executive-desk"
    /\ grid[4][2].type = "Tile" /\ grid[4][1].type = "Asphalt"
    /\ tileClickCash >= FURNITURE["executive-desk"].cost
    /\ economy.cash = tileClickCash
    /\ ev.signals = {}


\* C11: a successful placement writes, for every cell of the w x h footprint
\* and for no other cell, type = Building, buildingId = the selected item,
\* originX/originY = the anchor and isOrigin = TRUE only at the anchor, and
\* the cash decreases by exactly the cost of the furniture, once.
PlacementWritesFootprintOnce ==
    [][(ev'.op = "click" /\ selectedTool = "Building" /\ grid' # grid) =>
         LET w == selectedFootprint[1]
             h == selectedFootprint[2]
             ax == ev'.arg[1] - w + 1
             ay == ev'.arg[2] - h + 1
             cost == IF selectedBuildingId \in DOMAIN FURNITURE
                     THEN FURNITURE[selectedBuildingId].cost ELSE 0
         IN /\ \A x \in Xs, y \in Ys :
                 IF x \in ax .. ax + w - 1 /\ y \in ay .. ay + h - 1
                 THEN /\ grid'[y][x].type = "Building"
                      /\ grid'[y][x].buildingId = selectedBuildingId
                      /\ grid'[y][x].originX = ax /\ grid'[y][x].originY = ay
                      /\ grid'[y][x].isOrigin = (x = ax /\ y = ay)
                 ELSE grid'[y][x] = grid[y][x]
            /\ economy'.cash = economy.cash - cost]_vars


\* C12: placing an item and then immediately erasing it with the eraser on
\* any of its cells restores every covered cell to its type before the
\* placement and clears buildingId, originX/originY and furnitureType on it.
PlaceThenEraseRestores ==
    [][(/\ ev'.op = "click" /\ selectedTool = "Eraser"
        /\ lastPlacement.placed /\ ev'.arg \in lastPlacement.cells)
         => \A p \in lastPlacement.cells :
               /\ grid'[p[2]][p[1]].type = lastPlacement.before[p[2]][p[1]].type
               /\ grid'[p[2]][p[1]].buildingId = undefined
               /\ grid'[p[2]][p[1]].originX = NoCoord
               /\ grid'[p[2]][p[1]].originY = NoCoord
               /\ grid'[p[2]][p[1]].furnitureType = undefined]_vars

\* a cell of type Building that is not an origin points at an origin cell of
\* type Building with the same buildingId
pointsAtOrigin(g, x, y) ==
    LET ox == g[y][x].originX
        oy == g[y][x].originY
    IN /\ ox \in Xs /\ oy \in Ys
       /\ g[oy][ox].type = "Building"
       /\ g[oy][ox].isOrigin
       /\ g[oy][ox].buildingId = g[y][x].buildingId

\* the cells of the object the cell (x, y) belongs to
objectCells(g, x, y) ==
    LET ox == IF g[y][x].isOrigin THEN x ELSE g[y][x].originX
        oy == IF g[y][x].isOrigin THEN y ELSE g[y][x].originY
    IN {p \in Xs \X Ys :
          /\ g[p[2]][p[1]].type = "Building"
          /\ g[p[2]][p[1]].buildingId = g[y][x].buildingId
          /\ \/ p = <<ox, oy>>
             \/ (~g[p[2]][p[1]].isOrigin /\ g[p[2]][p[1]].originX = ox
                                        /\ g[p[2]][p[1]].originY = oy)}

\* C13: in every reachable state every non-origin cell of type Building
\* points at an origin cell of type Building with the same buildingId, and a
\* deletion (eraser click, eraser drag, confirmed drag) that removes a cell of
\* an object removes all the cells of that object in the same update.
NoOrphanedCells ==
    /\ [](\A x \in Xs, y \in Ys :
            (grid[y][x].type = "Building" /\ ~grid[y][x].isOrigin)
               => pointsAtOrigin(grid, x, y))
    /\ [][\A x \in Xs, y \in Ys :
            (/\ grid[y][x].type = "Building"
             /\ grid'[y][x].type # "Building")
               => \A p \in objectCells(grid, x, y) :
                     grid'[p[2]][p[1]].type # "Building"]_vars


\* the cells that carry an employee id as assignedEmployeeId
cellsAssignedTo(id) ==
    {p \in Xs \X Ys : grid[p[2]][p[1]].assignedEmployeeId = id}

\* C14: in every reachable state no two employees on the roster have the same
\* assignedDeskId and no employee id is the assignedEmployeeId of more than
\* one grid cell.
DeskAssignmentUnique ==
    /\ \A i, j \in 1 .. Len(employees) :
          (i # j /\ employees[i].assignedDeskId # null)
             => employees[i].assignedDeskId # employees[j].assignedDeskId
    /\ \A i \in 1 .. Len(employees) :
          Cardinality(cellsAssignedTo(employees[i].id)) <= 1


\* the happiness the rules give an employee on a grid: 20 without a desk,
\* otherwise 50 + the quality bonus of the desk + the bonus of every amenity
\* type that has an origin cell within its radius, between 0 and 100
ruleHappiness(employee, g) ==
    IF employee.assignedDeskId = null THEN 20
    ELSE LET dx == employee.assignedDeskId[1]
             dy == employee.assignedDeskId[2]
             id == g[dy][dx].buildingId
             quality == IF id \in DOMAIN DESK_QUALITY_BONUS
                        THEN DESK_QUALITY_BONUS[id] ELSE 0
             near(t) == \E x \in Xs, y \in Ys :
                          /\ g[y][x].isOrigin /\ g[y][x].buildingId = t
                          /\ (x - dx) * (x - dx) + (y - dy) * (y - dy)
                               <= AMENITY_BUILDINGS[t].range * AMENITY_BUILDINGS[t].range
             RECURSIVE sum(_)
             sum(T) == IF T = {} THEN 0
                       ELSE LET t == CHOOSE t \in T : TRUE
                            IN (IF near(t) THEN AMENITY_BUILDINGS[t].bonus ELSE 0)
                                 + sum(T \ {t})
             total == 50 + quality + sum(DOMAIN AMENITY_BUILDINGS)
         IN IF total > 100 THEN 100 ELSE IF total < 0 THEN 0 ELSE total

\* C15: the happiness a month tick computes for an employee is 20 without a
\* desk and otherwise 50 + the desk-quality bonus + the bonus of each amenity
\* type in range once, clamped to [0,100]; every employee's happiness is in
\* [0,100] in every reachable state.
HappinessIsClampedSum ==
    /\ [](\A i \in 1 .. Len(employees) : employees[i].happiness \in 0 .. 100)
    /\ [][ev'.op = "timer" =>
            \A i \in 1 .. Len(employees') :
               employees'[i].happiness = ruleHappiness(employees'[i], grid)]_vars

\* a tick clamped the founder's happiness to 100 with two amenities of one
\* type in range, and kept the employee without a desk at 20
HappinessIsClampedSumWitness ==
    /\ ev.op = "timer"
    /\ Len(employees) = 2
    /\ employees[1].happiness = 100
    /\ employees[2].assignedDeskId = null /\ employees[2].happiness = 20
    /\ \E p, q \in Xs \X Ys :
          /\ p # q
          /\ grid[p[2]][p[1]].buildingId = "coffee-machine"
          /\ grid[q[2]][q[1]].buildingId = "coffee-machine"


\* the bonus of the desks of the furniture registry, by their furniture id
furnitureDeskBonus ==
    [id \in {"basic-desk", "premium-desk", "executive-desk", "standing-desk"} |->
       CASE id = "basic-desk" -> 0
         [] id = "premium-desk" -> 10
         [] id = "executive-desk" -> 20
         [] id = "standing-desk" -> 15]

\* C16: the happiness a month tick computes for an employee assigned to a
\* desk of the furniture registry includes the bonus of that desk: +0 for the
\* basic, +10 for the premium, +20 for the executive and +15 for the
\* standing desk, on top of the base 50 (up to the clamp at 100).
DeskBonusByFurnitureId ==
    [][ev'.op = "timer" =>
         \A i \in 1 .. Len(employees') :
            LET e == employees'[i]
            IN e.assignedDeskId # null =>
                 LET id == grid[e.assignedDeskId[2]][e.assignedDeskId[1]].buildingId
                 IN id \in DOMAIN furnitureDeskBonus =>
                      e.happiness >= Min(100, 50 + furnitureDeskBonus[id])]_vars


\* the quit probability of the tiers, in percent
quitTier(happiness) ==
    CASE happiness >= 60 -> 0
      [] happiness >= 40 /\ happiness < 60 -> 5
      [] happiness >= 20 /\ happiness < 40 -> 15
      [] happiness < 20 -> 30

\* C17: a month tick takes the quit decision of every employee against the
\* happiness it recomputes in that tick, with probability 0 from 60 up, 0.05
\* in [40,60), 0.15 in [20,40) and 0.30 below 20: an employee whose recomputed
\* happiness is at least 60 stays on the roster, whatever the happiness was
\* before, and the employees who stay carry the recomputed value.
QuitAgainstRecomputedHappiness ==
    /\ [](\A h \in 0 .. 100 : calculateQuitProbability(h) = quitTier(h))
    /\ [][ev'.op = "timer" =>
            \A i \in 1 .. Len(employees) :
               LET recomputed == calculateEmployeeHappiness(employees[i], grid)
               IN /\ recomputed >= 60 =>
                       \E j \in 1 .. Len(employees') :
                           employees'[j].id = employees[i].id
                  /\ \A j \in 1 .. Len(employees') :
                        employees'[j].id = employees[i].id =>
                           employees'[j].happiness = recomputed]_vars

\* the first step was a tick: the founder, at 10 before it and recomputed to
\* 60 or more, stayed, and the employee without a desk, at 75 before it and
\* recomputed to 20, quit
QuitAgainstRecomputedHappinessWitness ==
    /\ ev.op = "timer" /\ steps = 1
    /\ Len(employees) = 1
    /\ employees[1].id = 1 /\ employees[1].happiness >= 60


\* the clients of a list that bring in the revenue v
withRevenue(cs, v) == Cardinality({i \in 1 .. Len(cs) : cs[i].monthlyRevenue = v})

\* the revenues on a list
revenuesOf(cs) == {cs[i].monthlyRevenue : i \in 1 .. Len(cs)}

\* C18: a month tick, on the timer or on command, leaves the client list as
\* the clients that stayed followed by at most one new client, and by none
\* when there are fewer than 5 employees, so it never adds more than one to
\* the client count; the client count is at most 100 in every reachable
\* state.
PassiveAcquisitionBounded ==
    /\ [](Len(clients) <= 100)
    /\ [][ev'.op \in {"timer", "advance"} =>
            /\ Len(clients') <= Len(clients) + 1
            /\ \E new \in (IF Len(employees) >= 5 THEN revenuesOf(clients') ELSE {})
                         \cup {0} :
                  \A v \in revenuesOf(clients') :
                     withRevenue(clients', v)
                        <= withRevenue(clients, v) + (IF v = new THEN 1 ELSE 0)]_vars

\* a tick of five employees took the client list from 99 to the maximum
PassiveAcquisitionBoundedWitness ==
    /\ ev.op \in {"timer", "advance"}
    /\ Len(employees) >= 4
    /\ Len(clients) = 100
    /\ economy.monthlyRevenue = calculateMonthlyRevenue(clientList(99))


\* C19: the timer's month tick happens only in a state that is not paused,
\* does not show the tutorial and is at least 30 seconds past lastMonthTick;
\* every tick, on the timer or on command, and every dismissal of the
\* tutorial sets lastMonthTick to the current time, so that the step after
\* one of them is never a timer tick and no timer tick comes before 30
\* seconds have passed again.
TimerTickOnlyAfterAMonth ==
    /\ [][ev'.op = "timer" =>
            ~isPaused /\ ~isTutorialVisible /\ elapsed >= 30]_vars
    /\ [][ev'.op \in {"timer", "advance", "tutorialDone"} => elapsed' = 0]_vars
    /\ [][ev.op \in {"timer", "advance", "tutorialDone"} => ev'.op # "timer"]_vars
    /\ [](elapsed < 30 => ~ENABLED TimerTick)

\* the second tick of a game came from the timer, a month after the first
TimerTickOnlyAfterAMonthWitness ==
    /\ ev.op = "timer"
    /\ steps = 2
    /\ elapsed = 0
    /\ ~isPaused /\ ~isTutorialVisible


\* C20: once a month tick has signalled bankruptcy, the game is paused in
\* every later state for as long as the board is played: no confirmation or
\* dismissal of a modal, no command and no evaluation of the victory goals
\* sets it running again.
BankruptcyIsTerminal ==
    []("Bankruptcy!" \in ev.signals => [](isPlaying => isPaused))

\* the bankruptcy modal was confirmed or closed: the board is still played,
\* it has reached the goals of its level, and it is paused
BankruptcyIsTerminalWitness ==
    /\ ev.op \in {"confirm", "close"}
    /\ modalState.title = "Bankruptcy!" /\ ~modalState.isVisible
    /\ isPlaying /\ isPaused
    /\ victoryCondition(levelId, employees, clients)


\* the cells of the grid in the footprint of the segment at seg
segmentCells(seg) ==
    {p \in Xs \X Ys :
       /\ p[1] >= seg[1] /\ p[1] < seg[1] + 4
       /\ p[2] >= seg[2] /\ p[2] < seg[2] + 4}

\* the footprint of the segment at seg lies within the grid and is all Grass
placeable(g, seg) ==
    /\ seg[1] >= 0 /\ seg[2] >= 0 /\ seg[1] + 4 <= GRID_WIDTH /\ seg[2] + 4 <= GRID_HEIGHT
    /\ \A p \in segmentCells(seg) : g[p[2]][p[1]].type = "Grass"

\* every cell of the footprint is Road or Asphalt and has the origin seg
present(g, seg) ==
    /\ seg[1] >= 0 /\ seg[2] >= 0 /\ seg[1] + 4 <= GRID_WIDTH /\ seg[2] + 4 <= GRID_HEIGHT
    /\ \A p \in segmentCells(seg) :
          /\ g[p[2]][p[1]].type \in {"Road", "Asphalt"}
          /\ g[p[2]][p[1]].originX = seg[1] /\ g[p[2]][p[1]].originY = seg[2]

\* a click with the road tool on a cell whose segment cannot be placed
\* leaves the grid as it was
failedRoadClickChangesNothing ==
    (ev'.op = "click" /\ selectedTool = "RoadNetwork"
       /\ ~placeable(grid, <<(ev'.arg[1] \div 4) * 4, (ev'.arg[2] \div 4) * 4>>))
    => grid' = grid

\* C21: in a road drag a segment whose footprint holds a cell that is not
\* Grass, or crosses the edge of the grid, is skipped and none of its cells
\* changes, while every segment of the batch that can be placed is a road
\* segment afterwards; a click with the road tool that fails leaves the
\* whole grid unchanged.
FailedRoadSegmentUntouched ==
    [][/\ ev'.op = "roadDrag" =>
            \A i \in 1 .. Len(ev'.arg) :
               IF placeable(grid, ev'.arg[i]) THEN present(grid', ev'.arg[i])
               ELSE \A p \in segmentCells(ev'.arg[i]) :
                       grid'[p[2]][p[1]] = grid[p[2]][p[1]]
       /\ failedRoadClickChangesNothing]_vars

\* C21, amended: the cells of a skipped segment keep every field, except
\* that a footprint which already is a road segment may have the types of
\* its cells re-tiled; the rest as above.
FailedRoadSegmentNotPlaced ==
    [][/\ ev'.op = "roadDrag" =>
            \A i \in 1 .. Len(ev'.arg) :
               IF placeable(grid, ev'.arg[i]) THEN present(grid', ev'.arg[i])
               ELSE \A p \in segmentCells(ev'.arg[i]) :
                       /\ [grid'[p[2]][p[1]] EXCEPT !.type = grid[p[2]][p[1]].type]
                            = grid[p[2]][p[1]]
                       /\ ~present(grid, ev'.arg[i]) =>
                            grid'[p[2]][p[1]] = grid[p[2]][p[1]]
       /\ failedRoadClickChangesNothing]_vars

\* a drag placed the segment at (4, 0) after it had passed over the segment
\* that crosses the edge of the grid
FailedRoadSegmentNotPlacedWitness ==
    /\ ev.op = "roadDrag"
    /\ ev.arg[1] = <<8, 0>>
    /\ ~present(grid, <<8, 0>>)
    /\ \A p \in segmentCells(<<8, 0>>) : grid[p[2]][p[1]].type = "Asphalt"
    /\ present(grid, <<4, 0>>)


\* the origin of the segment a cell lies in
segmentOf(p) == <<(p[1] \div 4) * 4, (p[2] \div 4) * 4>>

\* a step of the road tool, and a step of the eraser
roadToolStep == ev'.op \in {"click", "roadDrag"} /\ selectedTool = "RoadNetwork"
eraserStep ==
    \/ ev'.op \in {"click", "eraserDrag"} /\ selectedTool = "Eraser"
    \/ ev'.op = "confirm" /\ modalState.onConfirm = "delete"

\* C22: a road edit (placement by click or drag, removal by eraser click or
\* drag) leaves every cell of a segment that exists before and after it as
\* it was but for its type: isOrigin, originX, originY and buildingId are
\* the same; a cell of a segment that is absent before and after the edit
\* is not written by the re-tiling: it is unchanged by the road tool, and
\* under the eraser it changes only when it is itself erased to Grass.
RetilingWritesOnlyTypes ==
    [][roadToolStep \/ eraserStep =>
         \A p \in Xs \X Ys :
            LET old == grid[p[2]][p[1]]
                new == grid'[p[2]][p[1]]
            IN /\ (present(grid, segmentOf(p)) /\ present(grid', segmentOf(p))) =>
                    /\ new.type \in {"Road", "Asphalt"}
                    /\ [new EXCEPT !.type = old.type] = old
               /\ (~present(grid, segmentOf(p)) /\ ~present(grid', segmentOf(p))) =>
                    \/ new = old
                    \/ eraserStep /\ new.type = "Grass"]_vars

\* a click placed the segment at (0, 0) next to the one at (4, 0), which
\* now shows its link to the west and still has its one origin cell
RetilingWritesOnlyTypesWitness ==
    /\ ev.op = "click" /\ segmentOf(ev.arg) = <<0, 0>>
    /\ present(grid, <<0, 0>>) /\ present(grid, <<4, 0>>)
    /\ grid[1][4].type = "Road" /\ grid[0][4].type = "Asphalt"
    /\ grid[0][4].isOrigin /\ ~grid[1][4].isOrigin


\* the origins of the aligned segments that fit the grid
SegmentOrigins ==
    {seg \in Xs \X Ys :
       /\ seg[1] % ROAD_SEGMENT_SIZE = 0 /\ seg[2] % ROAD_SEGMENT_SIZE = 0
       /\ seg[1] + ROAD_SEGMENT_SIZE <= GRID_WIDTH
       /\ seg[2] + ROAD_SEGMENT_SIZE <= GRID_HEIGHT}

\* the connections of the segment at seg on the grid g
connectionsOf(g, seg) == getRoadConnections(g, seg[1], seg[2])

\* the tiles on the grid at seg are the pattern of its connections
tiledAsConnected(g, seg) ==
    \A tile \in generateRoadPattern(getSegmentType(connectionsOf(g, seg))) :
       g[seg[2] + tile.dy][seg[1] + tile.dx].type = tile.type

\* links between present neighbours are reported from both sides
linkedBothWays(g, a) ==
    /\ \A b \in {<<a[1] + ROAD_SEGMENT_SIZE, a[2]>>} \cap SegmentOrigins :
          present(g, b) => /\ connectionsOf(g, a).east /\ connectionsOf(g, b).west
                           /\ g[a[2] + 1][a[1] + ROAD_SEGMENT_SIZE - 1].type = "Road"
                           /\ g[b[2] + 1][b[1]].type = "Road"
    /\ \A b \in {<<a[1], a[2] + ROAD_SEGMENT_SIZE>>} \cap SegmentOrigins :
          present(g, b) => /\ connectionsOf(g, a).south /\ connectionsOf(g, b).north
                           /\ g[a[2] + ROAD_SEGMENT_SIZE - 1][a[1] + 1].type = "Road"
                           /\ g[b[2]][b[1] + 1].type = "Road"

roadsConsistent(g) ==
    \A seg \in SegmentOrigins :
       present(g, seg) => tiledAsConnected(g, seg) /\ linkedBothWays(g, seg)

\* C23: after road placements and removals, each present segment's stored
\* tiles are the pattern of its current connections, and two adjacent present
\* segments report the link between them from both sides (a link is reported
\* towards a side exactly when the neighbour there is present): road-tool and
\* eraser steps keep this true, and it is true of a board without roads
RoadPatternsFollowConnections ==
    [][(roadsConsistent(grid) /\ (roadToolStep \/ eraserStep)) =>
          /\ roadsConsistent(grid')
          /\ \A seg \in SegmentOrigins :
                present(grid', seg) =>
                   \A d \in {"north", "east", "south", "west"} :
                      connectionsOf(grid', seg)[d] <=>
                         LET n == CASE d = "north" -> <<seg[1], seg[2] - ROAD_SEGMENT_SIZE>>
                                    [] d = "east" -> <<seg[1] + ROAD_SEGMENT_SIZE, seg[2]>>
                                    [] d = "south" -> <<seg[1], seg[2] + ROAD_SEGMENT_SIZE>>
                                    [] d = "west" -> <<seg[1] - ROAD_SEGMENT_SIZE, seg[2]>>
                         IN present(grid', n)]_vars

\* an eraser click has removed the segment south of a present segment: the
\* side towards the removed segment is asphalt
RoadPatternsFollowConnectionsWitness ==
    /\ ev.op = "click" /\ selectedTool = "Eraser" /\ segmentOf(ev.arg) = <<0, 4>>
    /\ present(grid, <<0, 0>>) /\ ~present(grid, <<0, 4>>)
    /\ grid[4][0].type = "Grass"
    /\ grid[3][1].type = "Asphalt" /\ grid[1][1].type = "Road"
    /\ roadsConsistent(grid)


\* the origin cells of the grid g that are desks without an employee
freeDeskCells(g) ==
    {p \in Xs \X Ys : /\ g[p[2]][p[1]].isOrigin
                      /\ g[p[2]][p[1]].furnitureType = "desk"
                      /\ g[p[2]][p[1]].assignedEmployeeId = NoEmployee}

\* p comes before q when the rows are read top to bottom and each row left
\* to right
rowMajorBefore(p, q) == p[2] < q[2] \/ (p[2] = q[2] /\ p[1] < q[1])

\* C24: a hire with cash >= 5000 and a free desk assigns the new employee to
\* the first free desk origin cell in row-major order: that cell carries the
\* new id afterwards and no other cell has changed, the roster has grown by
\* one employee with that id, salary 5000, happiness 75 and an assignedDeskId
\* naming the cell, and cash has decreased by exactly 5000
HireTakesFirstDesk ==
    [][(ev'.op = "hire" /\ economy.cash >= 5000 /\ freeDeskCells(grid) # {}) =>
         \E p \in freeDeskCells(grid) :
            /\ \A q \in freeDeskCells(grid) : ~rowMajorBefore(q, p)
            /\ Len(employees') = Len(employees) + 1
            /\ SubSeq(employees', 1, Len(employees)) = employees
            /\ LET hired == employees'[Len(employees')]
               IN /\ hired.salary = 5000 /\ hired.happiness = 75
                  /\ hired.assignedDeskId = deskIdOf(p[1], p[2])
                  /\ \A i \in 1 .. Len(employees) : employees[i].id # hired.id
                  /\ hired.id # NoEmployee
                  /\ grid' = [grid EXCEPT ![p[2]][p[1]].assignedEmployeeId = hired.id]
            /\ economy' = [economy EXCEPT !.cash = economy.cash - 5000]
            /\ clients' = clients]_vars

\* a hire has taken a desk while a free desk remains in a later row but in a
\* column further left
HireTakesFirstDeskWitness ==
    /\ ev.op = "hire" /\ ev.signals = {}
    /\ Len(employees) >= 2
    /\ \E p \in Xs \X Ys, q \in freeDeskCells(grid) :
          /\ grid[p[2]][p[1]].assignedEmployeeId = employees[Len(employees)].id
          /\ q[2] > p[2] /\ q[1] < p[1]


\* C25: a grid cell carries assignedEmployeeId = e exactly when e is on the
\* roster and e's assignedDeskId names that cell; no cell keeps the id of an
\* employee who has left, and the desk of an employee who quits or is fired
\* is free again in the same step
DeskAllocationMatchesRoster ==
    \A p \in Xs \X Ys :
       \A e \in ({employees[i].id : i \in 1 .. Len(employees)} \cup
                 {grid[q[2]][q[1]].assignedEmployeeId : q \in Xs \X Ys}) \ {NoEmployee} :
          grid[p[2]][p[1]].assignedEmployeeId = e <=>
             \E i \in 1 .. Len(employees) :
                /\ employees[i].id = e
                /\ employees[i].assignedDeskId = deskIdOf(p[1], p[2])


\* the distance within which the level-3 tutorial counts an amenity
tutorialRange(id) ==
    CASE id = "coffee-station" -> 10
      [] id = "break-table" -> 15
      [] id \in {"small-meeting", "large-meeting", "conference-room"} -> 12
      [] id = "water-cooler" -> 8
      [] id = "office-plant" -> 5

\* the amenity kinds of the registry that have an item within range of (dx, dy)
amenityKindsNear(g, dx, dy) ==
    {g[p[2]][p[1]].furnitureType : p \in
       {q \in Xs \X Ys :
          /\ g[q[2]][q[1]].type = "Building" /\ g[q[2]][q[1]].isOrigin
          /\ g[q[2]][q[1]].buildingId \in
                {"coffee-station", "break-table", "water-cooler", "small-meeting",
                 "large-meeting", "conference-room"}
          /\ withinRange(dx, dy, q[1], q[2], tutorialRange(g[q[2]][q[1]].buildingId))}}

\* the employee is assigned to a desk of the registry that has a break-area
\* amenity, a meeting room and a plant within range
wellSeated(g, employee) ==
    /\ employee.assignedDeskId # null
    /\ LET dx == deskX(employee.assignedDeskId)
           dy == deskY(employee.assignedDeskId)
       IN /\ g[dy][dx].type = "Building" /\ g[dy][dx].isOrigin
          /\ g[dy][dx].buildingId \in
                {"basic-desk", "premium-desk", "executive-desk", "standing-desk"}
          /\ g[dy][dx].assignedEmployeeId = employee.id
          /\ amenityKindsNear(g, dx, dy) = {"break_area", "meeting_room"}
          /\ \E p \in Xs \X Ys :
                /\ g[p[2]][p[1]].buildingId = "office-plant"
                /\ withinRange(dx, dy, p[1], p[2], tutorialRange("office-plant"))

RecomputedHappinessAtMost55 ==
    ev.op = "timer" =>
       \A i \in 1 .. Len(employees) : employees[i].happiness <= 55


\* the four items of the registry's desks category
deskItems == {"basic-desk", "premium-desk", "executive-desk", "standing-desk"}

\* C28: only furniture of the desks category is treated as a desk: every
\* origin cell that findAvailableDesk can return or that countAvailableDesks
\* and the rent of a month tick count holds one of the four desk items, so
\* decor adds neither a seat nor rent
OnlyDeskItemsAreDesks ==
    /\ \A p \in Xs \X Ys :
          (grid[p[2]][p[1]].furnitureType = "desk" /\ grid[p[2]][p[1]].isOrigin) =>
             grid[p[2]][p[1]].buildingId \in deskItems
    /\ findAvailableDesk(grid) # null =>
          grid[findAvailableDesk(grid)[2]][findAvailableDesk(grid)[1]].buildingId \in deskItems
    /\ deskCount(grid) =
          Cardinality({p \in Xs \X Ys : /\ grid[p[2]][p[1]].isOrigin
                                        /\ grid[p[2]][p[1]].type = "Building"
                                        /\ grid[p[2]][p[1]].buildingId \in deskItems})


\* the cells of the item the cell t belongs to: the cells of its object, the
\* footprint of its road segment, or the cell itself
itemOf(g, t) ==
    LET cell == g[t[2]][t[1]]
    IN IF cell.type = "Building" /\ cell.buildingId # undefined
       THEN objectCells(g, t[1], t[2]) \cup {t}
       ELSE IF cell.type \in {"Road", "Asphalt"} /\ present(g, segmentOf(t))
               /\ cell.originX # NoCoord
       THEN segmentCells(segmentOf(t))
       ELSE {t}

\* the items a drag over the tiles touches: those of its cells that are not
\* Grass
itemsTouched(g, tiles) ==
    {itemOf(g, t) : t \in {u \in {tiles[i] : i \in 1 .. Len(tiles)} \cap (Xs \X Ys) :
                             g[u[2]][u[1]].type # "Grass"}}

\* every cell of every item is Grass on the grid h
allDeleted(h, items) == \A item \in items : \A p \in item : h[p[2]][p[1]].type = "Grass"

\* C27: an eraser drag over more than one item changes no cell and asks for
\* confirmation; cancelling leaves the grid as it was and accepting deletes
\* every item the drag touched, all cells of a multi-cell object included; a
\* drag over exactly one item deletes it at once
EraserDragDeletesWholeItems ==
    [][/\ (ev'.op = "eraserDrag" /\ Cardinality(itemsTouched(grid, ev'.arg)) > 1) =>
             /\ grid' = grid
             /\ modalState'.isVisible /\ modalState'.onConfirm = "delete"
       /\ (ev'.op = "close" /\ modalState.onConfirm = "delete") => grid' = grid
       /\ (ev'.op = "confirm" /\ modalState.onConfirm = "delete") =>
             allDeleted(grid', itemsTouched(grid, modalState.tiles))
       /\ (ev'.op = "eraserDrag" /\ Cardinality(itemsTouched(grid, ev'.arg)) = 1) =>
             allDeleted(grid', itemsTouched(grid, ev'.arg))]_vars


\* C29: once a desk has been removed with the eraser its cells are no desk
\* any more: a cell that is not a Building carries no furnitureType and no
\* assignedEmployeeId, so it is neither counted for rent nor returned by
\* findAvailableDesk, and no employee's assignedDeskId names such a cell
ErasedDeskIsNoDesk ==
    /\ \A p \in Xs \X Ys :
          grid[p[2]][p[1]].type # "Building" =>
             /\ grid[p[2]][p[1]].furnitureType = undefined
             /\ grid[p[2]][p[1]].assignedEmployeeId = NoEmployee
    /\ deskCount(grid) =
          Cardinality({p \in Xs \X Ys : /\ grid[p[2]][p[1]].type = "Building"
                                        /\ grid[p[2]][p[1]].isOrigin
                                        /\ grid[p[2]][p[1]].furnitureType = "desk"})
    /\ findAvailableDesk(grid) # null =>
          grid[findAvailableDesk(grid)[2]][findAvailableDesk(grid)[1]].type = "Building"
    /\ \A i \in 1 .. Len(employees) :
          employees[i].assignedDeskId # null =>
             LET desk == employees[i].assignedDeskId
             IN /\ grid[deskY(desk)][deskX(desk)].type = "Building"
                /\ grid[deskY(desk)][deskX(desk)].furnitureType = "desk"


\* C30: while the game is paused by bankruptcy or victory, a hire, a fire,
\* a client acquisition or a click on the board changes neither the cash,
\* nor the roster, nor the client list, nor the grid
PausedGameIsFrozen ==
    [][(isPaused /\ ev'.op \in {"hire", "fire", "acquire", "click"}) =>
          UNCHANGED <<economy, employees, clients, grid>>]_vars

====
